---- MODULE Spec2Model ----
(***************************************************************************)
(* State evaluation pipeline of the contracts SDK: the sort-key state      *)
(* cache, the cacheable state evaluator (eval, the cache hooks,            *)
(* putInCache) and the fold of DefaultStateEvaluator.doReadState with its  *)
(* nested readState calls.                                                 *)
(*                                                                         *)
(* Sort-keys are modelled by the integers: the n-th interaction written    *)
(* has id n and sort-key n, the genesis sort-key is 0.  A contract state   *)
(* is an integer counter.                                                  *)
(***************************************************************************)
EXTENDS Integers, Sequences, FiniteSets, TLC

\* ---- bounds of the model ------------------------------------------------
MaxInteractions == 2      \* interactions written in one behaviour
MaxReads == 3             \* root readState calls in one behaviour
MaxWriteReads == 2        \* root readState calls of the two writing contracts
MaxCycleReads == 1        \* root readState calls over a write cycle
MaxCallChain == 8         \* readState calls in progress at one time
MaxLoads == 2             \* load calls on the caching loader in one behaviour
PageSize == 1             \* interactions in one page of the gateway's answer
MaxCacheOps == 4          \* put / delete / prune calls on the cache in one behaviour
MaxSortKey == 3           \* sort-keys put into the cache directly: 1..MaxSortKey
MaxMissing == 3           \* length of a list of missing interactions given to eval
MaxStack == 2             \* length of a call stack given to eval
MaxLookupPuts == 3        \* puts that run beside one range lookup
MaxHandles == 3           \* handle calls of the js handler in one behaviour
MaxStaged == 3            \* interactions when staged effects are followed
MaxPagesReported == 3     \* greatest paging.pages a gateway response reports
MaxPagedLoads == 2        \* loads of the gateway loader followed page by page
MaxClassified == 2        \* handle calls whose result is classified
MaxReentry == 3           \* handle calls in progress on one handler instance
MaxStartedLoads == 3      \* loads started on the caching loader, some at once
MaxCallNodes == 5         \* interactions and foreign calls of one call record

\* ---- program constants --------------------------------------------------
genesisSortKey == 0
cacheEveryNInteractions == -1

Contracts == {"A", "B"}
NoKey == -1               \* readState() called without a sort-key

Max(S) == CHOOSE x \in S : \A y \in S : y <= x

\* ---- JS objects ---------------------------------------------------------
\* A Record<string, T>: a function whose domain is the set of defined keys.
EmptyMap == [x \in {} |-> FALSE]
MapPut(m, k, v) == [x \in (DOMAIN m) \cup {k} |-> IF x = k THEN v ELSE m[x]]

\* m[k], undefined when k is not a key: None or Some(value).
MapGet(m, k) == IF k \in DOMAIN m THEN <<m[k]>> ELSE <<>>

\* m[k] = v where v may be undefined: a key holding undefined reads, and is
\* stored by the json encoding, as a key that is not there.
MapSet(m, k, v) ==
  IF v = <<>> THEN [x \in (DOMAIN m) \ {k} |-> m[x]] ELSE MapPut(m, k, v[1])

\* An optional value (T | null) is a sequence of length 0 or 1.
None == <<>>
Some(v) == <<v>>

EvalStateResult(state, validity, errorMessages) ==
  [state |-> state, validity |-> validity, errorMessages |-> errorMessages]

SortKeyCacheResult(sortKey, cachedValue) ==
  [sortKey |-> sortKey, cachedValue |-> cachedValue]

\* ---- the sort-key cache (LevelDbCache, json value encoding) --------------
\* cache[c] is the sub-level of contract c: sort-key -> stored value.
CacheGet(ch, key, sortKey) ==
  IF sortKey \in DOMAIN ch[key]
    THEN Some(SortKeyCacheResult(sortKey, ch[key][sortKey]))
    ELSE None

CacheGetLast(ch, key) ==
  IF DOMAIN ch[key] = {}
    THEN None
    ELSE LET k == Max(DOMAIN ch[key])
         IN  Some(SortKeyCacheResult(k, ch[key][k]))

\* A lookup that ignores the sort-key it is given.
CacheGetLessOrEqualUnbounded(ch, key, sortKey) == CacheGetLast(ch, key)

CacheGetLessOrEqual(ch, key, sortKey) ==
  LET keys == {k \in DOMAIN ch[key] : k <= sortKey}
  IN  IF keys = {}
        THEN None
        ELSE Some(SortKeyCacheResult(Max(keys), ch[key][Max(keys)]))

\* A put that stores nothing.
CachePutDropped(ch, key, sortKey, value) == ch

CachePut(ch, key, sortKey, value) ==
  [ch EXCEPT ![key] = MapPut(@, sortKey, value)]

CacheDelete(ch, key) == [ch EXCEPT ![key] = EmptyMap]

\* contractCache.keys({reverse: true, limit}).all(): the keys of a sub-level,
\* greatest first, at most limit of them.
RECURSIVE KeysReverse(_, _)
KeysReverse(m, limit) ==
  IF limit <= 0 \/ DOMAIN m = {}
    THEN <<>>
    ELSE LET k == Max(DOMAIN m)
         IN  <<k>> \o KeysReverse([x \in (DOMAIN m) \ {k} |-> m[x]], limit - 1)

\* A clear that removes the bounding key as well.
ClearLte(m, sortKey) == [x \in {k \in DOMAIN m : k > sortKey} |-> m[x]]

\* contractCache.clear({lt: sortKey})
ClearLt(m, sortKey) == [x \in {k \in DOMAIN m : k >= sortKey} |-> m[x]]

\* The default of prune's parameter, and the value the parameter is given
\* when it is null (or another falsy value), zero or negative.
defaultEntriesStored == 5

EntriesStored(entriesStored) ==
  IF entriesStored = None \/ entriesStored[1] <= 0 THEN 1 ELSE entriesStored[1]

\* prune(entriesStored): entriesStored is None for null.  keys() names the
\* contracts that hold an entry.
CachePrune(ch, entriesStored) ==
  LET n == EntriesStored(entriesStored)
  IN  [c \in Contracts |->
         IF DOMAIN ch[c] = {}
           THEN ch[c]
           ELSE LET entries == KeysReverse(ch[c], n)
                IN  IF Len(entries) < n
                      THEN ch[c]
                      ELSE ClearLt(ch[c], entries[Len(entries)])]

\* ---- interactions -------------------------------------------------------
\* confirmationStatus: "undefined" when the gateway sets none.
Statuses == {"undefined", "confirmed", "unknown"}

\* What an interaction does when the fold reaches it:
\*   add        the guest returns a new state (counter + amount)
\*   error      the guest throws a ContractError
\*   exception  the guest throws another error
\*   evmFail    EVM-signed, and the signature verifier rejects it (or throws)
\*   noInput    no Input tag for this contract
\*   badInput   the Input tag is not parsable JSON
\* and, outside DirectKinds:
\*   networkError  the guest's fetch fails: a NetworkCommunicationError is
\*                 thrown inside the guest
DirectKinds == {"add", "error", "exception", "evmFail", "noInput", "badInput"}

\* Interactions whose guest code calls the other contract (internalWrites):
\*   readWrite  reads the other contract's state, writes 'add' to it and adds
\*              the other contract's new counter to its own
\*   writeBack  writes to the other contract, whose handler writes 'add' back
\*   readBack   writes to the other contract, whose handler reads the caller
\*   writeThrow writes 'add' to the other contract and then throws a
\*              ContractError
HookKinds == {"readWrite", "writeBack", "readBack", "writeThrow"}

\* Direct interactions that the guest applies (as 'add') and after which a
\* modifier throws, named by what is thrown: a ContractError with the subtype
\* unsafeClientSkip, constructor or blacklistedSkip, a
\* NonWhitelistedSourceError, or another error.
ModifierFailKinds ==
  {"modifierUnsafeClientSkip", "modifierConstructor", "modifierBlacklistedSkip",
   "modifierNonWhitelisted", "modifierOther"}

\* Interactions of the writing contract that write to the other contract,
\* and for which readState of the writing contract throws, named as above.
WriterFailKinds ==
  {"writerUnsafeClientSkip", "writerConstructor", "writerBlacklistedSkip",
   "writerNonWhitelisted", "writerOther"}

\* The error an interaction's kind names: "ContractError:<subtype>", the
\* error's name, or "none".
ErrorOf(kind) ==
  CASE kind \in {"modifierUnsafeClientSkip", "writerUnsafeClientSkip"} ->
         "ContractError:unsafeClientSkip"
    [] kind \in {"modifierConstructor", "writerConstructor"} ->
         "ContractError:constructor"
    [] kind \in {"modifierBlacklistedSkip", "writerBlacklistedSkip"} ->
         "ContractError:blacklistedSkip"
    [] kind \in {"modifierNonWhitelisted", "writerNonWhitelisted"} ->
         "NonWhitelistedSourceError"
    [] kind \in {"modifierOther", "writerOther"} -> "Error"
    [] OTHER -> "none"

Tx(contract, kind, confirmationStatus, dry) ==
  [contract |-> contract, kind |-> kind,
   confirmationStatus |-> confirmationStatus, dry |-> dry]

\* The amount carried by the Input of interaction id.
Amount(id) == 2 ^ (id - 1)

InitState(c) == 0

VARIABLES
  txs,              \* the interactions written so far; txs[n] has id n, sort-key n
  cache,            \* the persistent sort-key cache of the state evaluator
  options,          \* the evaluation options of the contracts
  frames,           \* the stack of readState calls in progress (root first)
  interactionState, \* the scratchpad of the root call: contract -> sort-key -> state
  handled,          \* handler invocations of the current root call
  calls,            \* history of finished root calls and cache deletions
  interactionsCache, \* the caching loader's memo: contract -> its list, if any
  pending           \* the asynchronous call of the cache or the handler in progress, if any

vars == <<txs, cache, options, frames, interactionState, handled, calls,
          interactionsCache, pending>>

SortKeyOf(id) == id
TxRec(id) == [id |-> id, sortKey |-> SortKeyOf(id),
              confirmationStatus |-> txs[id].confirmationStatus,
              dry |-> txs[id].dry]

EmptyCache == [c \in Contracts |-> EmptyMap]

\* new Map(): the caching loader has a list for no contract.
NoInteractionsCache == [c \in Contracts |-> None]

\* ---- CacheableStateEvaluator: putInCache and the cache hooks -------------
PutInCacheNoDryCheck(ch, contractTxId, transaction, state) ==
  IF transaction.confirmationStatus # "undefined"
       /\ transaction.confirmationStatus # "confirmed"
    THEN ch
    ELSE CachePut(ch, contractTxId, transaction.sortKey,
                  EvalStateResult(state.state, state.validity, state.errorMessages))

PutInCache(ch, contractTxId, transaction, state) ==
  IF transaction.dry
    THEN ch
    ELSE IF transaction.confirmationStatus # "undefined"
              /\ transaction.confirmationStatus # "confirmed"
           THEN ch
           ELSE CachePut(ch, contractTxId, transaction.sortKey,
                         EvalStateResult(state.state, state.validity, state.errorMessages))

canBeCached(tx) ==
  IF tx.confirmationStatus = "undefined"
    THEN TRUE
    ELSE tx.confirmationStatus = "confirmed"

LatestAvailableState(ch, contractTxId, sortKey) ==
  IF sortKey # NoKey
    THEN CacheGetLessOrEqual(ch, contractTxId, sortKey)
    ELSE CacheGetLast(ch, contractTxId)

\* ---- interactions loader -------------------------------------------------
Other(c) == IF c = "A" THEN "B" ELSE "A"

\* isInteractWrite(interaction, c): the interaction carries an Interact-Write
\* tag naming c.  The tags name the contracts its call graph writes to, the
\* contract it is sent to excepted ("write-backs").
IsInteractWrite(id, c) ==
  /\ txs[id].kind \in HookKinds \cup WriterFailKinds
  /\ c = Other(txs[id].contract)

\* The interactions of a contract: those sent to it and, with internalWrites,
\* those that write to it.
IsInteractionOf(id, c) ==
  \/ txs[id].contract = c
  \/ options.internalWrites /\ IsInteractWrite(id, c)

\* load(contract, from, to): the contract's interactions in (from, to],
\* ascending by sort-key; no upper bound when to is not given.
Load(c, from, to) ==
  SelectSeq([n \in 1..Len(txs) |-> n],
            LAMBDA id : /\ IsInteractionOf(id, c)
                        /\ SortKeyOf(id) > from
                        /\ (to = NoKey \/ SortKeyOf(id) <= to))

\* ---- the interaction-state scratchpad ------------------------------------
SetInitial(is, c, state, sortKey) == [is EXCEPT ![c] = MapPut(@, sortKey, state)]

Update(is, c, state, sortKey) == [is EXCEPT ![c] = MapPut(@, sortKey, state)]

\* get: the staged entry, falling back to the base cache.
ScratchGet(is, ch, c, sortKey) ==
  IF sortKey \in DOMAIN is[c]
    THEN Some(is[c][sortKey])
    ELSE IF sortKey \in DOMAIN ch[c] THEN Some(ch[c][sortKey]) ELSE None

StagedUpTo(is, sortKey) ==
  {e \in Contracts \X (1..Len(txs)) : e[2] \in DOMAIN is[e[1]] /\ e[2] <= sortKey}

RECURSIVE Flush(_, _, _)
Flush(ch, is, entries) ==
  IF entries = {}
    THEN ch
    ELSE LET e == CHOOSE x \in entries : TRUE
         IN  Flush(PutInCache(ch, e[1], TxRec(e[2]), is[e[1]][e[2]]), is, entries \ {e})

\* commit(interaction): flush the staged entries up to the interaction's
\* sort-key to the persistent cache, through the cacheability gate.
Commit(is, ch, id) == Flush(ch, is, StagedUpTo(is, SortKeyOf(id)))

\* The staged entries, as (contract, sort-key, value).
Entries(is) ==
  {<<c, k, is[c][k]>> : <<c, k>> \in {e \in Contracts \X (1..Len(txs)) : e[2] \in DOMAIN is[e[1]]}}

\* The entries a commit writes: those up to the interaction's sort-key that
\* pass the cacheability gate.
Flushed(is, id) ==
  {e \in Entries(is) :
     /\ e[2] <= SortKeyOf(id)
     /\ PutInCache(EmptyCache, e[1], TxRec(e[2]), e[3]) # EmptyCache}

\* ---- the guest: JsHandlerApi.handle --------------------------------------
\* The result of handle for an interaction whose guest code calls no other
\* contract.
HandleErrorChangesState(kind, id, currentResult) ==
  CASE kind \in {"add", "evolve"} \cup ModifierFailKinds ->
         [type |-> "ok", state |-> currentResult.state + Amount(id),
          errorMessage |-> "undefined"]
    [] kind = "error" ->
         [type |-> "error", state |-> currentResult.state + Amount(id),
          errorMessage |-> "ContractError"]
    [] kind = "networkError" ->
         [type |-> "exception", state |-> currentResult.state,
          errorMessage |-> "NetworkCommunicationError"]
    [] OTHER ->
         [type |-> "exception", state |-> currentResult.state,
          errorMessage |-> "Error"]

Handle(kind, id, currentResult) ==
  CASE kind \in {"add", "evolve"} \cup ModifierFailKinds ->
         [type |-> "ok", state |-> currentResult.state + Amount(id),
          errorMessage |-> "undefined"]
    [] kind = "error" ->
         [type |-> "error", state |-> currentResult.state,
          errorMessage |-> "ContractError"]
    [] kind = "networkError" ->
         [type |-> "exception", state |-> currentResult.state,
          errorMessage |-> "NetworkCommunicationError"]
    [] OTHER ->
         [type |-> "exception", state |-> currentResult.state,
          errorMessage |-> "Error"]

\* ---- the source of the handler ----------------------------------------------
\* An 'evolve' interaction is applied by the guest like 'add' (its amount in
\* the counter stands for state.evolve being set to the new source).  Sources
\* are named by the interaction that set them, 0 being the source the contract
\* was deployed with.
OriginalSrc == 0

\* Evolve.evolvedSrcTxId(state): the source named by state.evolve.
EvolvedSrc(state) ==
  LET evolves == {id \in 1..Len(txs) :
                    txs[id].kind = "evolve" /\ (state \div Amount(id)) % 2 = 1}
  IN  IF evolves = {} THEN OriginalSrc
      ELSE CHOOSE id \in evolves : \A other \in evolves : other <= id

\* ---- readState: the execution context of a call ---------------------------
\* What the end of an iteration did with the scratchpad: the interaction, the
\* methods called in order, the entry updated, the entries the commit wrote to
\* the persistent cache, and the entries left staged: all of them, and those
\* staged while an interaction that ended invalid was processed.
NoScratch ==
  [id |-> 0, calls |-> <<>>, updated |-> <<>>, flushed |-> {}, left |-> {},
   leftInvalid |-> {}]

\* cachedState is the latest available state at the requested sort-key and
\* sortedInteractions the interactions after it, up to the requested key.
NewFrame(c, requested, currentTx, isRoot, purpose, ch) ==
  LET cachedState == LatestAvailableState(ch, c, requested)
      from == IF cachedState = None THEN genesisSortKey ELSE cachedState[1].sortKey
  IN  [contract |-> c, requestedSortKey |-> requested, cachedState |-> cachedState,
       sortedInteractions |-> Load(c, from, requested), currentTx |-> currentTx,
       isRoot |-> isRoot, purpose |-> purpose, pc |-> "eval",
       cold |-> (ch = EmptyCache), path |-> "none",
       length |-> 0, i |-> 0, currentState |-> 0, currentSortKey |-> NoKey,
       validity |-> EmptyMap, errorMessages |-> EmptyMap,
       lastConfirmedTxState |-> None, shouldBreakAfterEvolve |-> FALSE,
       calleeState |-> None, calleeInteractions |-> <<>>,
       aborted |-> FALSE, error |-> "none",
       handler |-> IF cachedState = None THEN OriginalSrc
                   ELSE EvolvedSrc(cachedState[1].cachedValue.state),
       handledBy |-> EmptyMap, handlerState |-> None,
       scratch |-> NoScratch,
       result |-> None]

Top == frames[Len(frames)]

\* signal?.aborted: the abort signal of the root call, which the nested calls
\* are given as well.
SignalNeverAborted(fs) == FALSE

SignalAborted(fs) == fs[1].aborted
SetTop(f) == [frames EXCEPT ![Len(frames)] = f]

\* ---- CacheableStateEvaluator.eval ------------------------------------------
\* findIndex: the 0-based index of the interaction in the list, or -1.
FindIndex(list, id) ==
  IF \E n \in 1..Len(list) : list[n] = id
    THEN (CHOOSE n \in 1..Len(list) :
            list[n] = id /\ \A m \in 1..(n - 1) : list[m] # id) - 1
    ELSE -1

\* A guard that cuts the list at the interaction of every stack entry,
\* whichever contract the entry names.
RECURSIVE InfLoopFixAnyContract(_, _, _)
InfLoopFixAnyContract(missingInteractions, currentTx, contractTxId) ==
  IF currentTx = <<>>
    THEN missingInteractions
    ELSE LET index == FindIndex(missingInteractions, Head(currentTx).interactionTxId)
         IN  InfLoopFixAnyContract(
               IF index # -1 THEN SubSeq(missingInteractions, 1, index)
                             ELSE missingInteractions,
               Tail(currentTx), contractTxId)

\* The 'inf. loop fix': for each entry of the call stack that names this
\* contract, splice(index) cuts the list at the entry's interaction.
NoInfLoopFix(missingInteractions, currentTx, contractTxId) == missingInteractions

RECURSIVE InfLoopFix(_, _, _)
InfLoopFix(missingInteractions, currentTx, contractTxId) ==
  IF currentTx = <<>>
    THEN missingInteractions
    ELSE LET entry == Head(currentTx)
             index == FindIndex(missingInteractions, entry.interactionTxId)
         IN  InfLoopFix(
               IF entry.contractTxId = contractTxId /\ index # -1
                 THEN SubSeq(missingInteractions, 1, index)
                 ELSE missingInteractions,
               Tail(currentTx), contractTxId)

\* The state the fold starts from: the cached one, or the initial state.
BaseStateIgnoringCache(cachedState, initState) == initState

BaseState(cachedState, initState) ==
  IF cachedState = None THEN initState ELSE cachedState[1].cachedValue.state

BaseValidityIgnoringCache(cachedState) == EmptyMap

BaseValidity(cachedState) ==
  IF cachedState = None THEN EmptyMap ELSE cachedState[1].cachedValue.validity

BaseErrorMessages(cachedState) ==
  IF cachedState = None THEN EmptyMap ELSE cachedState[1].cachedValue.errorMessages

\* An eval that never takes the cached entry as it is.
NeverExactCacheHit(f) == FALSE

\* cachedState && cachedState.sortKey == executionContext.requestedSortKey
ExactCacheHit(f) ==
  f.cachedState # None /\ f.cachedState[1].sortKey = f.requestedSortKey

\* handlerState is the state the handler was last given through initState.
Eval ==
  /\ frames # <<>>
  /\ Top.pc = "eval"
  /\ LET f == Top
         missing == InfLoopFix(f.sortedInteractions, f.currentTx, f.contract)
         stateToCache == EvalStateResult(InitState(f.contract), EmptyMap, EmptyMap)
     IN  IF ExactCacheHit(f)
           THEN /\ frames' = SetTop([f EXCEPT !.pc = "done", !.path = "exact",
                                              !.handlerState =
                                                Some(f.cachedState[1].cachedValue.state),
                                              !.result = f.cachedState])
                /\ cache' = cache
           ELSE IF Len(missing) = 0
             THEN IF f.cachedState # None
                    THEN /\ frames' = SetTop([f EXCEPT !.pc = "done", !.path = "nomissing",
                                                       !.sortedInteractions = missing,
                                                       !.handlerState =
                                                         Some(f.cachedState[1].cachedValue.state),
                                                       !.result = f.cachedState])
                         /\ cache' = cache
                    ELSE /\ frames' = SetTop([f EXCEPT
                              !.pc = "done", !.path = "init",
                              !.sortedInteractions = missing,
                              !.handlerState = Some(InitState(f.contract)),
                              !.result = Some(SortKeyCacheResult(genesisSortKey, stateToCache))])
                         /\ cache' = CachePut(cache, f.contract, genesisSortKey, stateToCache)
             ELSE /\ frames' = SetTop([f EXCEPT
                       !.pc = "loop", !.path = "fold",
                       !.sortedInteractions = missing,
                       !.length = Len(missing), !.i = 0,
                       !.handlerState =
                         Some(BaseState(f.cachedState, InitState(f.contract))),
                       !.currentState = BaseState(f.cachedState, InitState(f.contract)),
                       !.validity = BaseValidity(f.cachedState),
                       !.errorMessages = BaseErrorMessages(f.cachedState)])
                  /\ cache' = cache
  /\ UNCHANGED <<txs, options, interactionsCache, interactionState, handled, calls,
               pending>>

\* ---- DefaultStateEvaluator.doReadState ------------------------------------
\* validity[id] read as a condition: undefined is falsy.
IsValid(validity, id) == id \in DOMAIN validity /\ validity[id]

\* The frame of the caller of the call on top of the stack.
Caller == frames[Len(frames) - 1]

\* The stack after the call on top returned: its caller, continued as f.
ReturnTo(f) == Append(SubSeq(frames, 1, Len(frames) - 2), f)

StackEntry(c, id) == [contractTxId |-> c, interactionTxId |-> id]

\* An invocation of contract c's handler for interaction id: by the fold of c,
\* or for a write that the guest of the other contract makes.
Handled(c, id, by) == [contract |-> c, id |-> id, by |-> by]

\* The object held in lastConfirmedTxState.state, as it reads now.  The
\* EvalStateResult constructor keeps the references it is given: the object
\* holds the state recorded with the transaction, and the validity and
\* errorMessages records of the fold, which later iterations write to.
LastConfirmedState(f) ==
  EvalStateResult(f.lastConfirmedTxState[1].state, f.validity, f.errorMessages)

\* A loop that runs the modifiers and keeps the execution context it had.
ModifyDiscarded(f) == f

\* executionContext = await modify(currentState, executionContext), with the
\* Evolve modifier: the context it returns has the handler of the source that
\* state.evolve names.
Modify(f) == [f EXCEPT !.handler = EvolvedSrc(f.currentState)]

\* The execution context modifiers run after interaction id.  A ContractError
\* of subtype unsafeClientSkip and a NonWhitelistedSourceError are caught: the
\* interaction is marked invalid and the loop is left before the next
\* interaction.  Any other error is thrown on.
Modifiers(f, id) ==
  LET e == ErrorOf(txs[id].kind)
  IN  IF txs[id].kind \notin ModifierFailKinds
        THEN Modify(f)
        ELSE IF e \in {"ContractError:unsafeClientSkip", "NonWhitelistedSourceError"}
          THEN [f EXCEPT !.validity = MapPut(f.validity, id, FALSE),
                         !.errorMessages = MapPut(f.errorMessages, id, e),
                         !.shouldBreakAfterEvolve = TRUE]
          ELSE [f EXCEPT !.pc = "rejected", !.error = e]

\* An end of iteration that commits in every evaluation, root or nested, and
\* whatever the interaction's validity.
CommitAlways(f, id, is, ch) ==
  LET recorded == f.lastConfirmedTxState # None
      staged == Update(is, f.contract, LastConfirmedState(f),
                       SortKeyOf(f.lastConfirmedTxState[1].tx))
  IN  [frame |-> [f EXCEPT
                    !.i = f.i + 1,
                    !.scratch =
                       [NoScratch EXCEPT
                          !.id = id,
                          !.calls = IF recorded THEN <<"update", "commit">> ELSE <<>>,
                          !.flushed = IF recorded THEN Flushed(staged, id) ELSE {}]],
       is |-> IF recorded THEN EmptyCache ELSE is,
       ch |-> IF recorded THEN Commit(staged, ch, id) ELSE ch]

\* Commit / rollback of the scratchpad at the root, or the update of the
\* staged state in a nested call.
CommitOrUpdate(f, id, is, ch) ==
  LET forceStateStoreToCache ==
        cacheEveryNInteractions > 0 /\ f.i % cacheEveryNInteractions = 0
      staged == Update(is, f.contract, LastConfirmedState(f),
                       SortKeyOf(f.lastConfirmedTxState[1].tx))
      updated == <<f.contract, SortKeyOf(f.lastConfirmedTxState[1].tx)>>
      next == [f EXCEPT !.i = f.i + 1]
      done(ops, key, written) ==
        [next EXCEPT !.scratch = [id |-> id, calls |-> ops, updated |-> key,
                                  flushed |-> written, left |-> {}, leftInvalid |-> {}]]
      left == [next EXCEPT
                 !.scratch =
                    [id |-> id, calls |-> <<>>, updated |-> <<>>, flushed |-> {},
                     left |-> Entries(is),
                     leftInvalid |->
                       (f.scratch.leftInvalid \cap Entries(is))
                         \cup (IF IsValid(f.validity, id)
                                 THEN {}
                                 ELSE Entries(is) \ f.scratch.left)]]
  IN  IF f.isRoot
        THEN IF f.lastConfirmedTxState # None
               THEN IF IsValid(f.validity, id)
                      THEN [frame |-> done(<<"update", "commit">>, updated,
                                           Flushed(staged, id)),
                            is |-> EmptyCache, ch |-> Commit(staged, ch, id)]
                      ELSE [frame |-> done(<<"update", "rollback">>, updated, {}),
                            is |-> EmptyCache, ch |-> ch]
               ELSE [frame |-> left, is |-> is, ch |-> ch]
        ELSE [frame |-> done(<<"update">>, <<f.contract, f.currentSortKey>>, {}),
              is |-> Update(is, f.contract,
                            EvalStateResult(f.currentState, f.validity, f.errorMessages),
                            f.currentSortKey),
              ch |-> ch]

\* The end of an iteration that was not left by 'continue': the modifiers,
\* then commit / rollback / update.  f is the frame after the interaction.
EndIteration(f, id, is, ch) ==
  LET modified == Modifiers(f, id)
  IN  IF modified.pc = "rejected"
        THEN [frame |-> modified, is |-> is, ch |-> ch]
        ELSE CommitOrUpdate(modified, id, is, ch)

\* The frame after handle returned result for the direct interaction id.
AfterHandleNeverThrows(f, id, result) ==
  LET errorMessages == IF result.type # "ok"
                         THEN MapPut(f.errorMessages, id, result.errorMessage)
                         ELSE f.errorMessages
  IN  [f EXCEPT
        !.errorMessages = errorMessages,
        !.validity = MapPut(f.validity, id, result.type = "ok"),
        !.currentState = result.state,
        !.lastConfirmedTxState =
           IF canBeCached(TxRec(id))
             THEN Some([tx |-> id, state |-> result.state])
             ELSE f.lastConfirmedTxState]

AfterHandle(f, id, result) ==
  LET errorMessages == IF result.type # "ok"
                         THEN MapPut(f.errorMessages, id, result.errorMessage)
                         ELSE f.errorMessages
  IN  IF result.type = "exception" /\ options.ignoreExceptions # TRUE
        THEN [f EXCEPT !.errorMessages = errorMessages, !.pc = "rejected",
                       !.error = "Error"]
        ELSE [f EXCEPT
               !.errorMessages = errorMessages,
               !.validity = MapPut(f.validity, id, result.type = "ok"),
               !.currentState = result.state,
               !.lastConfirmedTxState =
                  IF canBeCached(TxRec(id))
                    THEN Some([tx |-> id, state |-> result.state])
                    ELSE f.lastConfirmedTxState]

\* One iteration of the loop over the missing interactions.
Iterate ==
  /\ frames # <<>>
  /\ Top.pc = "loop"
  /\ Top.i < Top.length
  /\ ~Top.shouldBreakAfterEvolve
  /\ ~SignalAborted(frames)
  /\ LET f0 == Top
         id == f0.sortedInteractions[f0.i + 1]
         kind == txs[id].kind
         f == [f0 EXCEPT !.currentSortKey = SortKeyOf(id)]
         is == SetInitial(interactionState, f.contract,
                          EvalStateResult(f.currentState, f.validity, f.errorMessages),
                          SortKeyOf(id))
         result == Handle(kind, id,
                          EvalStateResult(f.currentState, f.validity, f.errorMessages))
         handledFrame ==
           AfterHandle([f EXCEPT !.handledBy = MapPut(@, id, f.handler)], id, result)
         end == EndIteration(handledFrame, id, is, cache)
     IN  /\ kind \notin HookKinds \cup WriterFailKinds
         /\ IF kind \in {"evmFail", "noInput", "badInput"}
              THEN \* 'continue'
                   /\ frames' = SetTop([f EXCEPT !.i = f.i + 1])
                   /\ interactionState' = is
                   /\ UNCHANGED <<cache, handled, pending>>
              ELSE /\ handled' = Append(handled, Handled(f.contract, id, "fold"))
                   /\ IF handledFrame.pc = "rejected"
                        THEN /\ frames' = SetTop(handledFrame)
                             /\ interactionState' = is
                             /\ cache' = cache
                        ELSE /\ frames' = SetTop(end.frame)
                             /\ interactionState' = end.is
                             /\ cache' = end.ch
  /\ UNCHANGED <<txs, options, interactionsCache, calls, pending>>

\* An iteration starts with the abort signal set: AbortError is thrown.
IterateAborted ==
  /\ frames # <<>>
  /\ Top.pc = "loop"
  /\ Top.i < Top.length
  /\ ~Top.shouldBreakAfterEvolve
  /\ SignalAborted(frames)
  /\ frames' = SetTop([Top EXCEPT !.pc = "rejected", !.error = "AbortError"])
  /\ UNCHANGED <<txs, cache, options, interactionsCache, interactionState, handled, calls,
               pending>>

\* The loop is left: onStateEvaluated persists the last confirmed state and
\* the call resolves with the state after the last interaction.
Finish ==
  /\ frames # <<>>
  /\ Top.pc = "loop"
  /\ (Top.i >= Top.length \/ Top.shouldBreakAfterEvolve)
  /\ LET f == Top
         evalStateResult == EvalStateResult(f.currentState, f.validity, f.errorMessages)
     IN  /\ cache' = IF f.lastConfirmedTxState # None
                       THEN PutInCache(cache, f.contract,
                                       TxRec(f.lastConfirmedTxState[1].tx),
                                       LastConfirmedState(f))
                       ELSE cache
         /\ frames' = SetTop([f EXCEPT
                                !.pc = "done",
                                !.result = Some(SortKeyCacheResult(f.currentSortKey,
                                                                   evalStateResult))])
  /\ UNCHANGED <<txs, options, interactionsCache, interactionState, handled, calls,
               pending>>

\* ---- doReadState: an interaction written by another contract ----------------
\* The fold reaches an interaction that the writing contract sent: the state
\* of the writing contract is read at the interaction's sort-key.  The call
\* carries the stack of the calls above it, extended with this contract and
\* the interaction.
IterateInternalWrite ==
  /\ frames # <<>>
  /\ Top.pc = "loop"
  /\ Top.i < Top.length
  /\ ~Top.shouldBreakAfterEvolve
  /\ ~SignalAborted(frames)
  /\ Len(frames) < MaxCallChain
  /\ LET f0 == Top
         id == f0.sortedInteractions[f0.i + 1]
         f == [f0 EXCEPT !.currentSortKey = SortKeyOf(id), !.pc = "awaitWriter"]
         writingContractTxId == txs[id].contract
     IN  /\ txs[id].kind \in HookKinds
         /\ IsInteractWrite(id, f.contract)
         /\ options.internalWrites
         /\ interactionState' =
              SetInitial(interactionState, f.contract,
                         EvalStateResult(f.currentState, f.validity, f.errorMessages),
                         SortKeyOf(id))
         /\ frames' = Append(SetTop(f),
                             NewFrame(writingContractTxId, SortKeyOf(id),
                                      Append(f.currentTx, StackEntry(f.contract, id)),
                                      FALSE, "internalWrite", cache))
  /\ UNCHANGED <<txs, cache, options, interactionsCache, handled, calls, pending>>

\* A fold that adopts the state written for this contract whatever the
\* interaction's validity in the writing contract.
AfterInternalWriteAdoptsAlways(f, id, newState, writingContractState) ==
  IF newState # None /\ writingContractState # None
    THEN [f EXCEPT
            !.pc = "loop",
            !.currentState = newState[1].state,
            !.validity = MapSet(f.validity, id, MapGet(newState[1].validity, id)),
            !.lastConfirmedTxState =
               IF canBeCached(TxRec(id))
                 THEN Some([tx |-> id, state |-> newState[1].state])
                 ELSE f.lastConfirmedTxState]
    ELSE [f EXCEPT !.pc = "loop", !.validity = MapPut(f.validity, id, FALSE)]

\* A fold that marks the interaction by the writing contract's validity and
\* never adopts the state written for this contract.
AfterInternalWriteKeepsState(f, id, newState, writingContractState) ==
  [f EXCEPT !.pc = "loop",
            !.validity =
               MapPut(f.validity, id,
                      /\ newState # None
                      /\ writingContractState # None
                      /\ IsValid(writingContractState[1].cachedValue.validity, id))]

\* The frame after the writing contract's state came back: the state staged
\* for this contract at the interaction's sort-key is adopted when the
\* interaction is valid in the writing contract.
AfterInternalWrite(f, id, newState, writingContractState) ==
  IF newState # None /\ writingContractState # None
    THEN LET parentValidity == IsValid(writingContractState[1].cachedValue.validity, id)
             currentState == IF parentValidity THEN newState[1].state ELSE f.currentState
             validity ==
               IF parentValidity
                 THEN MapSet(f.validity, id, MapGet(newState[1].validity, id))
                 ELSE MapPut(f.validity, id, FALSE)
             errorMessages ==
               IF parentValidity
                 THEN IF MapGet(newState[1].errorMessages, id) # None
                        THEN MapPut(f.errorMessages, id, newState[1].errorMessages[id])
                        ELSE f.errorMessages
                 ELSE MapSet(f.errorMessages, id,
                             MapGet(writingContractState[1].cachedValue.errorMessages, id))
         IN  [f EXCEPT
               !.pc = "loop",
               !.currentState = currentState,
               !.validity = validity,
               !.errorMessages = errorMessages,
               !.lastConfirmedTxState =
                  IF canBeCached(TxRec(id))
                    THEN Some([tx |-> id, state |-> currentState])
                    ELSE f.lastConfirmedTxState]
    ELSE [f EXCEPT !.pc = "loop", !.validity = MapPut(f.validity, id, FALSE)]

ReturnToInternalWrite ==
  /\ Len(frames) >= 2
  /\ Top.purpose = "internalWrite"
  /\ Top.pc = "done"
  /\ LET f == Caller
         id == f.sortedInteractions[f.i + 1]
         newState == ScratchGet(interactionState, cache, f.contract, SortKeyOf(id))
         end == EndIteration(AfterInternalWrite(f, id, newState, Top.result),
                             id, interactionState, cache)
     IN  /\ frames' = ReturnTo(end.frame)
         /\ interactionState' = end.is
         /\ cache' = end.ch
  /\ UNCHANGED <<txs, options, interactionsCache, handled, calls, pending>>

\* The fold reaches an interaction written by a contract whose readState
\* throws.  The four known errors are caught: the error is stored as the
\* interaction's message, the interaction is marked invalid and the iteration
\* goes on to its end.  Any other error is thrown on.
IterateInternalWriteThrows ==
  /\ frames # <<>>
  /\ Top.pc = "loop"
  /\ Top.i < Top.length
  /\ ~Top.shouldBreakAfterEvolve
  /\ ~SignalAborted(frames)
  /\ LET f0 == Top
         id == f0.sortedInteractions[f0.i + 1]
         e == ErrorOf(txs[id].kind)
         f == [f0 EXCEPT !.currentSortKey = SortKeyOf(id)]
         is == SetInitial(interactionState, f.contract,
                          EvalStateResult(f.currentState, f.validity, f.errorMessages),
                          SortKeyOf(id))
         caught == [f EXCEPT
                      !.errorMessages = MapPut(f.errorMessages, id, e),
                      !.validity = MapPut(f.validity, id, FALSE),
                      !.lastConfirmedTxState =
                         IF canBeCached(TxRec(id))
                           THEN Some([tx |-> id, state |-> f.currentState])
                           ELSE f.lastConfirmedTxState]
         end == EndIteration(caught, id, is, cache)
     IN  /\ txs[id].kind \in WriterFailKinds
         /\ IsInteractWrite(id, f.contract)
         /\ options.internalWrites
         /\ IF e \in {"ContractError:unsafeClientSkip", "ContractError:constructor",
                       "ContractError:blacklistedSkip", "NonWhitelistedSourceError"}
              THEN /\ frames' = SetTop(end.frame)
                   /\ interactionState' = end.is
                   /\ cache' = end.ch
              ELSE /\ frames' = SetTop([f EXCEPT !.pc = "rejected", !.error = e])
                   /\ interactionState' = is
                   /\ cache' = cache
  /\ UNCHANGED <<txs, options, interactionsCache, handled, calls, pending>>

\* ---- the guest's calls to other contracts ---------------------------------------
\* onContractCall: the state before the interaction is stored under the key
\* of the interaction before it in the context's list.
ContractCall(ch, c, sortedInteractions, id, state) ==
  LET txIndex == FindIndex(sortedInteractions, id)
  IN  IF Len(sortedInteractions) = 0 \/ txIndex < 1
        THEN ch
        ELSE PutInCache(ch, c, TxRec(sortedInteractions[txIndex]), state)

\* write(callee, input) stages the callee's state after the input under the
\* interaction's sort-key.
StageWrite(is, callee, id, base, state) ==
  Update(is, callee,
         EvalStateResult(state, MapPut(base.validity, id, TRUE), base.errorMessages),
         SortKeyOf(id))

\* The stack a call made by the guest of contract c carries.
HookStack(f, id) == Append(f.currentTx, StackEntry(f.contract, id))

\* The fold reaches a direct interaction whose guest code calls the other
\* contract: handle starts and the guest makes its first call.  readWrite
\* reads the other contract's state; the other kinds write to it, which first
\* evaluates the callee at the interaction's sort-key.
CallHook ==
  /\ frames # <<>>
  /\ Top.pc = "loop"
  /\ Top.i < Top.length
  /\ ~Top.shouldBreakAfterEvolve
  /\ ~SignalAborted(frames)
  /\ Len(frames) < MaxCallChain
  /\ LET f0 == Top
         id == f0.sortedInteractions[f0.i + 1]
         kind == txs[id].kind
         f == [f0 EXCEPT !.currentSortKey = SortKeyOf(id)]
         currentResult == EvalStateResult(f.currentState, f.validity, f.errorMessages)
         ch == IF kind = "readWrite"
                 THEN ContractCall(cache, f.contract, f.sortedInteractions, id, currentResult)
                 ELSE cache
     IN  /\ kind \in HookKinds
         /\ txs[id].contract = f.contract
         /\ interactionState' = SetInitial(interactionState, f.contract, currentResult,
                                           SortKeyOf(id))
         /\ handled' = Append(handled, Handled(f.contract, id, "fold"))
         /\ cache' = ch
         /\ frames' = Append(
              SetTop([f EXCEPT !.pc = IF kind = "readWrite" THEN "hookRead" ELSE "hookWrite"]),
              NewFrame(Other(f.contract), SortKeyOf(id), HookStack(f, id), FALSE,
                       IF kind = "readWrite" THEN "read" ELSE "write", ch))
  /\ UNCHANGED <<txs, options, interactionsCache, calls, pending>>

\* readContractState returned: the guest of readWrite goes on to write.
ReturnToReadHook ==
  /\ Len(frames) >= 2
  /\ Top.purpose = "read"
  /\ Top.pc = "done"
  /\ LET f == Caller
         id == f.sortedInteractions[f.i + 1]
     IN  frames' = Append(ReturnTo([f EXCEPT !.pc = "hookWrite"]),
                          NewFrame(Other(f.contract), SortKeyOf(id), HookStack(f, id),
                                   FALSE, "write", cache))
  /\ UNCHANGED <<txs, cache, options, interactionsCache, interactionState, handled, calls,
               pending>>

\* The guest's result once its calls are done, and the rest of the iteration.
FinishHandle(f, id, state, is, ch) ==
  LET result == IF txs[id].kind = "writeThrow"
                  THEN [type |-> "error", state |-> f.currentState,
                        errorMessage |-> "ContractError"]
                  ELSE [type |-> "ok", state |-> state, errorMessage |-> "undefined"]
      handledFrame == AfterHandle([f EXCEPT !.pc = "loop", !.calleeState = None,
                                            !.calleeInteractions = <<>>],
                                  id, result)
  IN  EndIteration(handledFrame, id, is, ch)

\* write of readWrite: the callee's handler applies 'add' to the callee's
\* state, the result is staged, and the guest adds the callee's new counter
\* to its own.
ReturnToWriteHook ==
  /\ Len(frames) >= 2
  /\ Top.purpose = "write"
  /\ Top.pc = "done"
  /\ LET f == Caller
         id == f.sortedInteractions[f.i + 1]
         callee == Other(f.contract)
         base == Top.result[1].cachedValue
         calleeResult == Handle("add", id, base)
         is == StageWrite(interactionState, callee, id, base, calleeResult.state)
         end == FinishHandle(f, id, f.currentState + calleeResult.state, is, cache)
     IN  /\ txs[id].kind \in {"readWrite", "writeThrow"}
         /\ handled' = Append(handled, Handled(callee, id, "write"))
         /\ frames' = ReturnTo(end.frame)
         /\ interactionState' = end.is
         /\ cache' = end.ch
  /\ UNCHANGED <<txs, options, interactionsCache, calls, pending>>

\* write of writeBack / readBack: the callee's handler starts on the
\* callee's state and calls back: it writes 'add' to the caller, or reads the
\* caller's state.
CalleeCallsBack ==
  /\ Len(frames) >= 2
  /\ Top.purpose = "write"
  /\ Top.pc = "done"
  /\ LET f == Caller
         id == f.sortedInteractions[f.i + 1]
         kind == txs[id].kind
         callee == Other(f.contract)
         base == Top.result[1].cachedValue
         ch == IF kind = "readBack"
                 THEN ContractCall(cache, callee, Top.sortedInteractions, id, base)
                 ELSE cache
     IN  /\ kind \in {"writeBack", "readBack"}
         /\ handled' = Append(handled, Handled(callee, id, "write"))
         /\ cache' = ch
         /\ frames' = Append(
              ReturnTo([f EXCEPT !.pc = "calleeHook", !.calleeState = Some(base)]),
              NewFrame(f.contract, SortKeyOf(id),
                       Append(HookStack(f, id), StackEntry(callee, id)), FALSE,
                       IF kind = "readBack" THEN "readBack" ELSE "writeBack", ch))
  /\ UNCHANGED <<txs, options, interactionsCache, interactionState, calls, pending>>

\* The write back returned the caller's state: the caller's handler applies
\* 'add' to it and the result is staged; the callee's handler returns and its
\* state is staged; the guest returns.
ReturnToWriteBack ==
  /\ Len(frames) >= 2
  /\ Top.purpose = "writeBack"
  /\ Top.pc = "done"
  /\ LET f == Caller
         id == f.sortedInteractions[f.i + 1]
         callee == Other(f.contract)
         base == Top.result[1].cachedValue
         backResult == Handle("add", id, base)
         is1 == StageWrite(interactionState, f.contract, id, base, backResult.state)
         is2 == StageWrite(is1, callee, id, f.calleeState[1], f.calleeState[1].state + 1)
         end == FinishHandle(f, id, f.currentState + 1, is2, cache)
     IN  /\ handled' = Append(handled, Handled(f.contract, id, "write"))
         /\ frames' = ReturnTo(end.frame)
         /\ interactionState' = end.is
         /\ cache' = end.ch
  /\ UNCHANGED <<txs, options, interactionsCache, calls, pending>>

\* The read back returned the caller's state: the callee's handler adds it
\* to its counter and returns, its state is staged; the guest returns.
ReturnToReadBack ==
  /\ Len(frames) >= 2
  /\ Top.purpose = "readBack"
  /\ Top.pc = "done"
  /\ LET f == Caller
         id == f.sortedInteractions[f.i + 1]
         callee == Other(f.contract)
         seen == Top.result[1].cachedValue.state
         is == StageWrite(interactionState, callee, id, f.calleeState[1],
                          f.calleeState[1].state + seen + 1)
         end == FinishHandle(f, id, f.currentState + 1, is, cache)
     IN  /\ frames' = ReturnTo(end.frame)
         /\ interactionState' = end.is
         /\ cache' = end.ch
  /\ UNCHANGED <<txs, options, interactionsCache, handled, calls, pending>>

\* ---- root calls -----------------------------------------------------------
NumReads == Cardinality({n \in 1..Len(calls) : calls[n].op = "readState"})
            + (IF frames = <<>> THEN 0 ELSE 1)

\* contract.readState(sortKey?) on a root contract.
ReadState(cs, max) ==
  /\ frames = <<>>
  /\ NumReads < max
  /\ \E c \in cs, k \in {NoKey} \cup (1..Len(txs)) :
       frames' = <<NewFrame(c, k, <<>>, TRUE, "root", cache)>>
  /\ interactionState' = EmptyCache
  /\ handled' = <<>>
  /\ UNCHANGED <<txs, cache, options, interactionsCache, calls, pending>>

CallRecord(f) ==
  [op |-> "readState", contract |-> f.contract, requested |-> f.requestedSortKey,
   upTo |-> Len(txs), cold |-> f.cold, path |-> f.path,
   based |-> f.cachedState # None,
   outcome |-> IF f.pc = "done" THEN "resolved" ELSE "rejected",
   result |-> f.result]

\* The root call resolves or rejects.
ReturnRoot ==
  /\ Len(frames) = 1
  /\ Top.pc \in {"done", "rejected"}
  /\ calls' = Append(calls, CallRecord(Top))
  /\ frames' = <<>>
  /\ UNCHANGED <<txs, cache, options, interactionsCache, interactionState, handled,
               pending>>

\* cache.delete(contract): the contract's entries are cleared.
Delete ==
  /\ frames = <<>>
  /\ \E c \in Contracts :
       /\ DOMAIN cache[c] # {}
       /\ cache' = CacheDelete(cache, c)
       /\ calls' = Append(calls, [op |-> "delete", contract |-> c])
  /\ UNCHANGED <<txs, options, interactionsCache, frames, interactionState, handled,
               pending>>

\* writeInteraction: a new interaction, with the next sort-key.
WriteInteraction(cs, kinds) ==
  /\ frames = <<>>
  /\ Len(txs) < MaxInteractions
  /\ \E c \in cs, kind \in kinds, st \in Statuses :
       txs' = Append(txs, Tx(c, kind, st, FALSE))
  /\ UNCHANGED <<cache, options, interactionsCache, frames, interactionState, handled, calls,
               pending>>

\* ---- the fold of one contract ------------------------------------------------
FoldInit ==
  /\ txs = <<>>
  /\ cache = EmptyCache
  /\ options \in [ignoreExceptions : BOOLEAN, internalWrites : {FALSE},
                  updateCacheForEachInteraction : {FALSE}]
  /\ frames = <<>>
  /\ interactionState = EmptyCache
  /\ handled = <<>>
  /\ calls = <<>>
  /\ interactionsCache = NoInteractionsCache
  /\ pending = None

FoldWrite == WriteInteraction({"A"}, DirectKinds)
FoldRead == ReadState({"A"}, MaxReads)

FoldNext ==
  \/ FoldWrite
  \/ FoldRead
  \/ Eval
  \/ Iterate
  \/ Finish
  \/ ReturnRoot
  \/ Delete

SpecFold == FoldInit /\ [][FoldNext]_vars

\* ---- two contracts that write to each other -------------------------------
WriteKinds == {"add", "readWrite", "writeBack", "readBack"}
WriteStatuses == {"confirmed", "unknown"}

WritesInit ==
  /\ txs = <<>>
  /\ cache = EmptyCache
  /\ options = [ignoreExceptions |-> TRUE, internalWrites |-> TRUE,
                updateCacheForEachInteraction |-> FALSE]
  /\ frames = <<>>
  /\ interactionState = EmptyCache
  /\ handled = <<>>
  /\ calls = <<>>
  /\ interactionsCache = NoInteractionsCache
  /\ pending = None

WritesWrite ==
  /\ frames = <<>>
  /\ Len(txs) < MaxInteractions
  /\ \E c \in Contracts, kind \in WriteKinds, st \in WriteStatuses :
       txs' = Append(txs, Tx(c, kind, st, FALSE))
  /\ UNCHANGED <<cache, options, interactionsCache, frames, interactionState, handled, calls,
               pending>>

WritesRead == ReadState(Contracts, MaxWriteReads)

WritesNext ==
  \/ WritesWrite
  \/ WritesRead
  \/ Eval
  \/ Iterate
  \/ IterateInternalWrite
  \/ ReturnToInternalWrite
  \/ CallHook
  \/ ReturnToReadHook
  \/ ReturnToWriteHook
  \/ CalleeCallsBack
  \/ ReturnToWriteBack
  \/ ReturnToReadBack
  \/ Finish
  \/ ReturnRoot

SpecWrites == WritesInit /\ [][WritesNext]_vars

\* ---- the cache hooks, called in any order ------------------------------
\* States passed to the hooks.
HookStates == {EvalStateResult(s, EmptyMap, EmptyMap) : s \in 0..1}

HookCall(op, id, contractTxId) == <<[op |-> op, tx |-> id, contract |-> contractTxId]>>

HooksInit ==
  /\ txs = <<>>
  /\ cache = EmptyCache
  /\ options \in [ignoreExceptions : {TRUE}, internalWrites : {FALSE},
                  updateCacheForEachInteraction : BOOLEAN]
  /\ frames = <<>>
  /\ interactionState = EmptyCache
  /\ handled = <<>>
  /\ calls = <<>>
  /\ interactionsCache = NoInteractionsCache
  /\ pending = None

\* An interaction of any kind reaches the evaluator: a real one with any
\* confirmation status, or a dry one made for viewState / dryWrite.
WriteAny ==
  /\ Len(txs) < MaxInteractions
  /\ \E st \in Statuses, dry \in BOOLEAN :
       txs' = Append(txs, Tx("A", "add", st, dry))
  /\ UNCHANGED <<cache, options, interactionsCache, frames, interactionState, handled, calls,
               pending>>

OnStateEvaluated ==
  \E id \in 1..Len(txs), c \in Contracts, state \in HookStates :
    /\ cache' = PutInCache(cache, c, TxRec(id), state)
    /\ calls' = HookCall("onStateEvaluated", id, c)
    /\ UNCHANGED <<txs, options, interactionsCache, frames, interactionState, handled,
               pending>>

OnStateUpdate ==
  \E id \in 1..Len(txs), c \in Contracts, state \in HookStates, force \in BOOLEAN :
    /\ cache' = IF options.updateCacheForEachInteraction \/ force
                  THEN PutInCache(cache, c, TxRec(id), state)
                  ELSE cache
    /\ calls' = HookCall("onStateUpdate", id, c)
    /\ UNCHANGED <<txs, options, interactionsCache, frames, interactionState, handled,
               pending>>

OnInternalWriteStateUpdate ==
  \E id \in 1..Len(txs), c \in Contracts, state \in HookStates :
    /\ cache' = PutInCache(cache, c, TxRec(id), state)
    /\ calls' = HookCall("onInternalWriteStateUpdate", id, c)
    /\ UNCHANGED <<txs, options, interactionsCache, frames, interactionState, handled,
               pending>>

\* sortedInteractions of the calling context: the interactions first..last.
\* txIndex is the 0-based index of the transaction in that list.
OnContractCall ==
  \E id \in 1..Len(txs), c \in Contracts, state \in HookStates,
     first \in 1..(Len(txs) + 1), last \in 0..Len(txs) :
    LET sortedInteractions == [n \in 1..(IF last >= first THEN last - first + 1 ELSE 0)
                                 |-> first + n - 1]
        txIndex == IF \E n \in 1..Len(sortedInteractions) : sortedInteractions[n] = id
                     THEN id - first
                     ELSE -1
    IN  /\ cache' = IF Len(sortedInteractions) = 0 \/ txIndex < 1
                      THEN cache
                      ELSE PutInCache(cache, c, TxRec(sortedInteractions[txIndex]), state)
        /\ calls' = HookCall("onContractCall", id, c)
        /\ UNCHANGED <<txs, options, interactionsCache, frames, interactionState, handled,
               pending>>

HooksNext ==
  \/ WriteAny
  \/ OnStateEvaluated
  \/ OnStateUpdate
  \/ OnInternalWriteStateUpdate
  \/ OnContractCall

SpecHooks == HooksInit /\ [][HooksNext]_vars

\* An interaction that must never be a persisted cache key.
NotCacheable(id) ==
  \/ txs[id].dry
  \/ txs[id].confirmationStatus \notin {"undefined", "confirmed"}

\* C1: after any sequence of cache hooks the persistent cache holds no entry
\* under the sort-key of an interaction that is dry, or whose
\* confirmationStatus is defined and different from 'confirmed'.
C1_CacheabilityGate ==
  \A c \in Contracts : \A k \in DOMAIN cache[c] :
    \A id \in 1..Len(txs) : SortKeyOf(id) = k => ~NotCacheable(id)

\* A hook was just called for a dry interaction and another interaction is
\* persisted.
C1_Witness ==
  /\ calls # <<>>
  /\ calls[1].op = "onStateEvaluated"
  /\ txs[calls[1].tx].dry
  /\ txs[calls[1].tx].confirmationStatus = "confirmed"
  /\ \E c \in Contracts : DOMAIN cache[c] # {}

\* ---- the fold: reference values and observations -------------------------------
\* The interactions of contract c with sort-key <= sortKey.
InteractionsUpTo(c, sortKey) ==
  {id \in 1..Len(txs) : IsInteractionOf(id, c) /\ SortKeyOf(id) <= sortKey}

RECURSIVE SumAmounts(_)
SumAmounts(ids) ==
  IF ids = {}
    THEN 0
    ELSE LET id == CHOOSE x \in ids : TRUE
         IN  Amount(id) + SumAmounts(ids \ {id})

\* The state of contract c after the fold of its interactions up to sortKey:
\* every 'add' interaction adds its amount, the others leave the state.
FoldedState(c, sortKey) ==
  InitState(c) + SumAmounts({id \in InteractionsUpTo(c, sortKey) : txs[id].kind = "add"})

\* The fold is about to process the next missing interaction.
InLoop ==
  /\ frames # <<>>
  /\ Top.pc = "loop"
  /\ Top.i < Top.length
  /\ ~Top.shouldBreakAfterEvolve

NextId == Top.sortedInteractions[Top.i + 1]

\* C2: every EvalStateResult persisted for contract c under sort-key k is the
\* fold of exactly c's interactions with sort-key <= k: its state is the state
\* after the interaction at k and its validity and errorMessages have no entry
\* of an interaction with a greater sort-key.
C2_PersistedIsFoldUpToKey ==
  \A c \in Contracts : \A k \in DOMAIN cache[c] :
    /\ cache[c][k].state = FoldedState(c, k)
    /\ \A id \in DOMAIN cache[c][k].validity : SortKeyOf(id) <= k
    /\ \A id \in DOMAIN cache[c][k].errorMessages : SortKeyOf(id) <= k

\* ---- observations on the history of root calls ---------------------------------
IsRead(n) == n \in 1..Len(calls) /\ calls[n].op = "readState"

\* Calls n and m evaluate the same contract at the same sort-key over the same
\* interaction list.
SameRequest(n, m) ==
  /\ calls[n].contract = calls[m].contract
  /\ calls[n].requested = calls[m].requested
  /\ (calls[n].requested = NoKey => calls[n].upTo = calls[m].upTo)

\* C3: incremental equivalence.  When eval at k1, started with an empty
\* cache, is followed by eval at k2 > k1 that resumes from the cached state,
\* the second call returns what an evaluation at k2 with an empty cache
\* returns: the same outcome, sort-key, state, validity and errorMessages.
C3_IncrementalEquivalence ==
  \A n \in 1..Len(calls), m \in 1..Len(calls) :
    ( /\ IsRead(n) /\ IsRead(n + 1) /\ IsRead(m)
      /\ calls[n].contract = calls[n + 1].contract
      /\ calls[n].cold
      /\ calls[n].requested # NoKey
      /\ calls[n].requested < calls[n + 1].requested
      /\ calls[n + 1].based
      /\ calls[m].cold
      /\ SameRequest(n + 1, m) )
    => /\ calls[n + 1].outcome = calls[m].outcome
       /\ calls[n + 1].result = calls[m].result

\* eval at k1 persisted a state, eval at k2 resumed from it and folded the
\* interactions after it, and the same request was also evaluated cold.
C3_Witness ==
  \E n \in 1..Len(calls), m \in 1..Len(calls) :
    /\ IsRead(n) /\ IsRead(n + 1) /\ IsRead(m)
    /\ calls[n].cold
    /\ calls[n].requested # NoKey
    /\ calls[n].requested < calls[n + 1].requested
    /\ calls[n + 1].based
    /\ calls[n + 1].path = "fold"
    /\ calls[n + 1].outcome = "resolved"
    /\ calls[n + 1].result[1].cachedValue.state > 0
    /\ calls[m].cold
    /\ SameRequest(n + 1, m)

\* C4: cache transparency.  eval called twice for the same requested
\* sort-key, first with a cold cache and then with the cache as the first call
\* left it, returns the same sort-key, state and validity both times.
C4_CacheTransparency ==
  \A n \in 1..Len(calls) :
    ( /\ IsRead(n) /\ IsRead(n + 1)
      /\ calls[n].cold
      /\ SameRequest(n, n + 1) )
    => /\ calls[n + 1].outcome = calls[n].outcome
       /\ calls[n].outcome = "resolved" =>
            /\ calls[n + 1].result[1].sortKey = calls[n].result[1].sortKey
            /\ calls[n + 1].result[1].cachedValue.state = calls[n].result[1].cachedValue.state
            /\ calls[n + 1].result[1].cachedValue.validity
                 = calls[n].result[1].cachedValue.validity

\* The second call was served by the given path of eval.
SecondCallBy(path) ==
  \E n \in 1..Len(calls) :
    /\ IsRead(n) /\ IsRead(n + 1)
    /\ calls[n].cold
    /\ calls[n].path = "fold"
    /\ SameRequest(n, n + 1)
    /\ calls[n + 1].path = path
    /\ calls[n + 1].based

C4_Witness == SecondCallBy("fold")
C4_WitnessExactHit == SecondCallBy("exact")
C4_WitnessNoMissing == SecondCallBy("nomissing")

\* ---- observations on one iteration of the fold -----------------------------------
NextTop == frames'[Len(frames')]

\* The iteration marks the interaction invalid with the message, leaves the
\* state and goes on with the next interaction.
MarkedInvalidAndContinues(message) ==
  /\ Len(frames') = Len(frames)
  /\ NextTop.pc = "loop"
  /\ NextTop.i = Top.i + 1
  /\ NextId \in DOMAIN NextTop.validity
  /\ NextTop.validity[NextId] = FALSE
  /\ NextId \in DOMAIN NextTop.errorMessages
  /\ NextTop.errorMessages[NextId] = message
  /\ NextTop.currentState = Top.currentState

\* C8: a known error is not fatal.  When handle returns 'error' for a direct
\* interaction, the interaction is marked invalid with the handler's message,
\* the state is the state before it, the fold goes on with the next
\* interaction and the call does not reject.
C8_KnownErrorIsNotFatal ==
  [][(InLoop /\ txs[NextId].kind = "error") => MarkedInvalidAndContinues("ContractError")]_vars

\* An 'error' interaction was folded after a valid one, and the fold went on to
\* apply the interaction after it.
C8_Witness ==
  /\ frames # <<>>
  /\ Top.pc = "loop"
  /\ \E id \in DOMAIN Top.validity, later \in DOMAIN Top.validity :
       /\ txs[id].kind = "error"
       /\ Top.validity[id] = FALSE
       /\ later > id
       /\ Top.validity[later] = TRUE
       /\ Top.currentState = Amount(later)

\* The interaction is mentioned nowhere in the persistent cache or the scratchpad.
NothingStoredFor(id) ==
  \A c \in Contracts :
    /\ \A k \in DOMAIN cache[c] :
         /\ k # SortKeyOf(id)
         /\ id \notin DOMAIN cache[c][k].validity
         /\ id \notin DOMAIN cache[c][k].errorMessages
    /\ \A k \in DOMAIN interactionState[c] :
         /\ id \notin DOMAIN interactionState[c][k].validity
         /\ id \notin DOMAIN interactionState[c][k].errorMessages

\* C9: when handle returns 'exception' for an interaction and
\* ignoreExceptions is not true, eval rejects: no validity entry is recorded
\* for the interaction, no later interaction is handled and nothing is
\* committed or persisted for it.  When ignoreExceptions is true the
\* interaction is marked invalid with its message, the state is unchanged and
\* the fold goes on.
C9_Exception ==
  /\ [][(InLoop /\ txs[NextId].kind = "exception") =>
          IF options.ignoreExceptions # TRUE
            THEN /\ Len(frames') = Len(frames)
                 /\ NextTop.pc = "rejected"
                 /\ NextId \notin DOMAIN NextTop.validity
                 /\ cache' = cache
            ELSE MarkedInvalidAndContinues("Error")]_vars
  /\ [][(frames # <<>> /\ Top.pc = "rejected") =>
          /\ handled' = handled
          /\ cache' = cache
          /\ Len(frames') < Len(frames)
          /\ (frames' = <<>> => calls'[Len(calls')].outcome = "rejected")]_vars
  /\ [](options.ignoreExceptions # TRUE =>
          \A id \in 1..Len(txs) : txs[id].kind = "exception" => NothingStoredFor(id))

\* A call rejected on an exception after an earlier interaction was committed.
C9_Witness ==
  /\ options.ignoreExceptions = FALSE
  /\ calls # <<>>
  /\ calls[Len(calls)].op = "readState"
  /\ calls[Len(calls)].outcome = "rejected"
  /\ DOMAIN cache["A"] # {}
  /\ Len(handled) = 2

\* The fold went on after an exception with ignoreExceptions = true.
C9_WitnessIgnored ==
  /\ options.ignoreExceptions = TRUE
  /\ frames # <<>>
  /\ Top.pc = "loop"
  /\ \E id \in DOMAIN Top.validity :
       txs[id].kind = "exception" /\ Top.validity[id] = FALSE /\ Top.i > 1

\* C10: an interaction that never reaches the handler (EVM signature not
\* verified, Input tag missing or not parsable) ends its iteration with
\* validity[id] = false, the state unchanged and the fold going on; so every
\* interaction the fold has passed has a defined validity entry.
C10_SkippedIsMarkedInvalid ==
  \A n \in 1..Len(frames) :
    frames[n].pc = "loop" =>
      \A j \in 1..frames[n].i :
        LET id == frames[n].sortedInteractions[j]
        IN  txs[id].kind \in {"evmFail", "noInput", "badInput"} =>
              /\ id \in DOMAIN frames[n].validity
              /\ frames[n].validity[id] = FALSE

\* ---- observations on calls between contracts -------------------------------------
\* The counters of the two contracts after the interactions 1..n, by the
\* meaning of the guest code: 'add' adds the amount to the contract it is sent
\* to; readWrite adds the amount to the other contract and the other
\* contract's new counter to its own.
RECURSIVE Counters(_)
Counters(n) ==
  IF n = 0
    THEN [c \in Contracts |-> InitState(c)]
    ELSE LET before == Counters(n - 1)
             c == txs[n].contract
             o == Other(c)
         IN  CASE txs[n].kind = "add" ->
                    [before EXCEPT ![c] = @ + Amount(n)]
               [] txs[n].kind = "readWrite" ->
                    [before EXCEPT ![o] = @ + Amount(n),
                                   ![c] = @ + before[o] + Amount(n)]
               [] OTHER -> before

\* Direct writes to the callee B, and writes to the caller A that read B and
\* write to B.
CallerAndCallee ==
  \A n \in 1..Len(txs) :
    \/ txs[n].contract = "B" /\ txs[n].kind = "add"
    \/ txs[n].contract = "A" /\ txs[n].kind = "readWrite"

UpTo(call) == IF call.requested = NoKey THEN call.upTo ELSE call.requested

CycleKinds == {"add", "writeBack", "readBack"}

CycleWrite ==
  /\ frames = <<>>
  /\ calls = <<>>
  /\ Len(txs) < MaxInteractions
  /\ \E c \in Contracts, kind \in CycleKinds, st \in WriteStatuses :
       txs' = Append(txs, Tx(c, kind, st, FALSE))
  /\ UNCHANGED <<cache, options, interactionsCache, frames, interactionState, handled, calls,
               pending>>

CycleRead == ReadState(Contracts, MaxCycleReads)

\* The evaluation of a root call goes on: one of its steps is taken.
CycleStep ==
  \/ Eval
  \/ Iterate
  \/ IterateInternalWrite
  \/ ReturnToInternalWrite
  \/ CallHook
  \/ CalleeCallsBack
  \/ ReturnToWriteBack
  \/ ReturnToReadBack
  \/ Finish
  \/ ReturnRoot

CycleNext ==
  \/ CycleWrite
  \/ CycleRead
  \/ CycleStep

\* The evaluator runs a call to its end: a step that can be taken is taken.
SpecCycle == WritesInit /\ [][CycleNext]_vars /\ WF_vars(CycleStep)

StopInit ==
  /\ txs = <<>>
  /\ cache = EmptyCache
  /\ options \in [ignoreExceptions : {TRUE}, internalWrites : {TRUE},
                  updateCacheForEachInteraction : {FALSE}]
  /\ frames = <<>>
  /\ interactionState = EmptyCache
  /\ handled = <<>>
  /\ calls = <<>>
  /\ interactionsCache = NoInteractionsCache
  /\ pending = None

StopWrite ==
  /\ frames = <<>>
  /\ Len(txs) < MaxInteractions
  /\ \E st \in WriteStatuses :
       \/ \E kind \in {"add"} \cup ModifierFailKinds :
            txs' = Append(txs, Tx("A", kind, st, FALSE))
       \/ \E kind \in WriterFailKinds :
            txs' = Append(txs, Tx("B", kind, st, FALSE))
  /\ UNCHANGED <<cache, options, interactionsCache, frames, interactionState, handled, calls,
               pending>>

StopRead == ReadState({"A"}, MaxWriteReads)

StopNext ==
  \/ StopWrite
  \/ StopRead
  \/ Eval
  \/ Iterate
  \/ IterateInternalWriteThrows
  \/ Finish
  \/ ReturnRoot

SpecStop == StopInit /\ [][StopNext]_vars

\* The errors after which the chain is to stop.
StopErrors ==
  {"ContractError:unsafeClientSkip", "ContractError:constructor",
   "ContractError:blacklistedSkip", "NonWhitelistedSourceError"}

\* C11: when the processing of interaction i fails with a ContractError of
\* subtype unsafeClientSkip, constructor or blacklistedSkip, or with a
\* NonWhitelistedSourceError, thrown by a modifier after i or by readState of
\* the writing contract, then eval does not reject, i is recorded invalid
\* with the error as its message, and i is the last interaction the fold
\* processes.
C11_ChainStopAfterEvolve ==
  \A n \in 1..Len(frames) :
    LET f == frames[n]
    IN  /\ f.pc = "rejected" =>
             ErrorOf(txs[f.sortedInteractions[f.i + 1]].kind) \notin StopErrors
        /\ f.pc \in {"loop", "done"} =>
             \A j \in 1..f.i :
               LET id == f.sortedInteractions[j]
               IN  ErrorOf(txs[id].kind) \in StopErrors =>
                     /\ j = f.i
                     /\ MapGet(f.validity, id) = Some(FALSE)
                     /\ MapGet(f.errorMessages, id) = Some(ErrorOf(txs[id].kind))

\* ---- network failures ---------------------------------------------------------
\* readState whose load of the interactions fails: the loader rejects and
\* the call rejects with it.
ReadStateLoadFails ==
  /\ frames = <<>>
  /\ NumReads < MaxReads
  /\ \E k \in {NoKey} \cup (1..Len(txs)) :
       frames' = <<[NewFrame("A", k, <<>>, TRUE, "root", cache) EXCEPT
                     !.sortedInteractions = <<>>,
                     !.path = "loadFailed",
                     !.pc = "rejected",
                     !.error = "NetworkError"]>>
  /\ interactionState' = EmptyCache
  /\ handled' = <<>>
  /\ UNCHANGED <<txs, cache, options, interactionsCache, calls, pending>>

NetInit ==
  /\ txs = <<>>
  /\ cache = EmptyCache
  /\ options \in [ignoreExceptions : BOOLEAN, internalWrites : {FALSE},
                  updateCacheForEachInteraction : {FALSE}]
  /\ frames = <<>>
  /\ interactionState = EmptyCache
  /\ handled = <<>>
  /\ calls = <<>>
  /\ interactionsCache = NoInteractionsCache
  /\ pending = None

NetWrite == WriteInteraction({"A"}, {"add", "networkError"})
NetRead == ReadState({"A"}, MaxReads)

NetNext ==
  \/ NetWrite
  \/ NetRead
  \/ ReadStateLoadFails
  \/ Eval
  \/ Iterate
  \/ Finish
  \/ ReturnRoot

SpecNet == NetInit /\ [][NetNext]_vars

\* C12: a network failure is fatal for readState, whatever ignoreExceptions
\* is: a call whose load of the interactions failed rejects, and a fold never
\* goes past an interaction whose guest raised a network communication error
\* (the interaction is not made an invalid interaction).
C12_NetworkFailureIsFatal ==
  \A n \in 1..Len(frames) :
    LET f == frames[n]
    IN  /\ f.path = "loadFailed" => f.pc = "rejected"
        /\ f.pc \in {"loop", "done"} =>
             \A j \in 1..f.i : txs[f.sortedInteractions[j]].kind # "networkError"

\* ---- cancellation -----------------------------------------------------------------
\* The caller sets the abort signal while its call is in progress.
Abort ==
  /\ frames # <<>>
  /\ ~frames[1].aborted
  /\ frames[1].pc \in {"eval", "loop"}
  /\ frames' = [frames EXCEPT ![1].aborted = TRUE]
  /\ UNCHANGED <<txs, cache, options, interactionsCache, interactionState, handled, calls,
               pending>>

AbortRead == ReadState({"A"}, MaxWriteReads)

AbortNext ==
  \/ FoldWrite
  \/ AbortRead
  \/ Abort
  \/ Eval
  \/ Iterate
  \/ IterateAborted
  \/ Finish
  \/ ReturnRoot

SpecAbort == FoldInit /\ [][AbortNext]_vars

\* C13: when an iteration of the fold starts with the abort signal set, eval
\* rejects with AbortError; the interaction of that iteration is not handled,
\* nothing is staged, committed or persisted; and once the call is rejected
\* no later interaction is handled and the cache keeps the entries it has.
C13_Cancellation ==
  /\ [][(InLoop /\ frames[1].aborted) =>
          /\ NextTop.pc = "rejected"
          /\ NextTop.error = "AbortError"
          /\ NextTop.i = Top.i
          /\ handled' = handled
          /\ interactionState' = interactionState
          /\ cache' = cache]_vars
  /\ [][(frames # <<>> /\ Top.error = "AbortError") =>
          /\ handled' = handled
          /\ cache' = cache
          /\ frames' = <<>>
          /\ calls'[Len(calls')].outcome = "rejected"]_vars

\* The second iteration of a fold of two interactions found the signal set:
\* the call is rejected and the first interaction's state is in the cache.
C13_Witness ==
  /\ frames # <<>>
  /\ Top.error = "AbortError"
  /\ Top.length = 2
  /\ Top.i = 1
  /\ handled = <<Handled("A", Top.sortedInteractions[1], "fold")>>
  /\ SortKeyOf(Top.sortedInteractions[1]) \in DOMAIN cache["A"]

\* ---- empty history ----------------------------------------------------------------
\* What eval stores and returns for a contract with no cached state and no
\* interactions.
GenesisResult(c) ==
  SortKeyCacheResult(genesisSortKey, EvalStateResult(InitState(c), EmptyMap, EmptyMap))

\* C14: when eval finds no missing interactions, it returns the cached state
\* as it is and writes nothing to the cache, if there is a cached state; if
\* there is none it stores the initial state with empty validity and
\* errorMessages under the genesis sort-key and returns that.  A readState
\* that follows, with still no interactions, is served from the cache and
\* returns the same result.
C14_EmptyHistory ==
  /\ [][(frames # <<>> /\ Top.pc = "eval" /\ Top.sortedInteractions = <<>>) =>
          IF Top.cachedState # None
            THEN /\ NextTop.pc = "done"
                 /\ NextTop.result = Top.cachedState
                 /\ cache' = cache
            ELSE /\ NextTop.pc = "done"
                 /\ NextTop.result = Some(GenesisResult(Top.contract))
                 /\ cache'[Top.contract] =
                      MapPut(cache[Top.contract], genesisSortKey,
                             GenesisResult(Top.contract).cachedValue)]_vars
  /\ [](\A n \in 1..Len(calls) :
         (/\ n + 1 <= Len(calls)
          /\ IsRead(n) /\ IsRead(n + 1)
          /\ calls[n].path = "init"
          /\ InteractionsUpTo(calls[n + 1].contract, UpTo(calls[n + 1])) = {}
          /\ calls[n + 1].contract = calls[n].contract)
         => /\ calls[n + 1].path = "nomissing"
            /\ calls[n + 1].result = calls[n].result)

\* A contract with no interactions was read twice: the first call stored the
\* initial state, the second returned the cached entry.
C14_Witness ==
  /\ txs = <<>>
  /\ Len(calls) = 2
  /\ IsRead(1) /\ IsRead(2)
  /\ calls[1].path = "init"
  /\ calls[2].path = "nomissing"
  /\ calls[2].result = Some(GenesisResult("A"))
  /\ cache["A"] = MapPut(EmptyMap, genesisSortKey, GenesisResult("A").cachedValue)

\* ---- the caching interactions loader ----------------------------------------------
\* lastCachedKey.localeCompare(toSortKey) < 0.  Without toSortKey the key is
\* compared with the text 'undefined'; a sort-key starts with a digit and
\* sorts before it.
SortKeyNotAfter(lastCachedKey, toSortKey) ==
  toSortKey = NoKey \/ lastCachedKey <= toSortKey

SortKeyBefore(lastCachedKey, toSortKey) ==
  toSortKey = NoKey \/ lastCachedKey < toSortKey

\* ---- the gateway loader: pages ------------------------------------------------
TotalPages(all) == (Len(all) + PageSize - 1) \div PageSize

Page(all, page) ==
  SubSeq(all, (page - 1) * PageSize + 1,
         IF page * PageSize < Len(all) THEN page * PageSize ELSE Len(all))

\* What a failing page request answers with, and the failure of a page
\* request: the page whose request fails (0: none) and the status of the answer.
GatewayStatuses == {500, 504}
NoFailure == [page |-> 0, status |-> 0]
NoError == [name |-> "none", status |-> 0]

\* A load that hands out the pages it has when a page request fails.
ReturnFetchedPages(interactions, failure) ==
  [outcome |-> "resolved", interactions |-> interactions, error |-> NoError]

\* The request of a page fails (rejected fetch or a response that is not
\* ok): load throws `Unable to retrieve transactions. Warp gateway responded
\* with status <status>.`; the pages fetched so far are gone with it.
PageFailure(interactions, failure) ==
  [outcome |-> "rejected", interactions |-> <<>>,
   error |-> [name |-> "Error", status |-> failure.status]]

\* The do-while loop over the pages; all is the gateway's answer for the
\* range, failAt the page whose request fails (0: none).
RECURSIVE FetchPages(_, _, _, _)
FetchPages(all, page, interactions, failure) ==
  IF page = failure.page
    THEN PageFailure(interactions, failure)
    ELSE LET fetched == interactions \o Page(all, page)
         IN  IF page < TotalPages(all)
               THEN FetchPages(all, page + 1, fetched, failure)
               ELSE [outcome |-> "resolved", interactions |-> fetched, error |-> NoError]

GatewayLoad(contractId, fromSortKey, toSortKey, failure) ==
  FetchPages(Load(contractId, fromSortKey, toSortKey), 1, <<>>, failure)

\* The page requests a load of the range makes: at least one.
PagesRequested(contractId, fromSortKey, toSortKey) ==
  LET pages == TotalPages(Load(contractId, fromSortKey, toSortKey))
  IN  IF pages < 1 THEN 1 ELSE pages

\* CacheableInteractionsLoader.load over the gateway loader: the new memo,
\* the outcome and the list returned.  fromSortKey and toSortKey are NoKey
\* when not given; failedPage is the page request that failed, 0 if none did;
\* delegate is the range of each call of the delegate's load.
CacheableLoad(ic, contractTxId, fromSortKey, toSortKey, failure) ==
  IF ic[contractTxId] = None
    THEN LET loaded == GatewayLoad(contractTxId, fromSortKey, toSortKey, failure)
             failedPage ==
               IF failure.page <= PagesRequested(contractTxId, fromSortKey, toSortKey)
                 THEN failure.page ELSE 0
         IN  IF loaded.outcome = "rejected"
               THEN [interactionsCache |-> ic, outcome |-> "rejected",
                     result |-> <<>>, error |-> loaded.error, failedPage |-> failedPage,
                     delegate |-> <<[from |-> fromSortKey, to |-> toSortKey]>>]
               ELSE [interactionsCache |->
                       [ic EXCEPT ![contractTxId] = Some(loaded.interactions)],
                     outcome |-> "resolved", result |-> loaded.interactions,
                     error |-> NoError, failedPage |-> failedPage,
                     delegate |-> <<[from |-> fromSortKey, to |-> toSortKey]>>]
    ELSE LET cachedInteractions == ic[contractTxId][1]
             lastCachedKey ==
               IF Len(cachedInteractions) > 0
                 THEN SortKeyOf(cachedInteractions[Len(cachedInteractions)])
                 ELSE genesisSortKey
         IN  IF SortKeyBefore(lastCachedKey, toSortKey)
               THEN LET loaded == GatewayLoad(contractTxId, lastCachedKey, toSortKey, failure)
                        failedPage ==
                          IF failure.page <= PagesRequested(contractTxId, lastCachedKey, toSortKey)
                            THEN failure.page ELSE 0
                        allInteractions == cachedInteractions \o loaded.interactions
                    IN  IF loaded.outcome = "rejected"
                          THEN [interactionsCache |-> ic, outcome |-> "rejected",
                                result |-> <<>>, error |-> loaded.error,
                                failedPage |-> failedPage,
                                delegate |-> <<[from |-> lastCachedKey, to |-> toSortKey]>>]
                          ELSE [interactionsCache |->
                                  [ic EXCEPT ![contractTxId] = Some(allInteractions)],
                                outcome |-> "resolved", result |-> allInteractions,
                                error |-> NoError, failedPage |-> failedPage,
                                delegate |-> <<[from |-> lastCachedKey, to |-> toSortKey]>>]
               ELSE [interactionsCache |-> ic, outcome |-> "resolved",
                     result |-> cachedInteractions, error |-> NoError, failedPage |-> 0,
                     delegate |-> <<>>]

NumLoads == Cardinality({n \in 1..Len(calls) : calls[n].op = "load"})

LoadRecord(c, from, to, failure, loaded) ==
  [op |-> "load", contract |-> c, from |-> from, to |-> to, upTo |-> Len(txs),
   outcome |-> loaded.outcome, result |-> loaded.result, error |-> loaded.error,
   failedPage |-> loaded.failedPage, status |-> failure.status,
   delegate |-> loaded.delegate]

\* loader.load(contract, from?, to?), every page request answered.
LoaderLoad ==
  /\ NumLoads < MaxLoads
  /\ \E c \in Contracts, from \in {NoKey} \cup (0..Len(txs)),
        to \in {NoKey} \cup (1..Len(txs)) :
       LET loaded == CacheableLoad(interactionsCache, c, from, to, NoFailure)
       IN  /\ interactionsCache' = loaded.interactionsCache
           /\ calls' = Append(calls, LoadRecord(c, from, to, NoFailure, loaded))
  /\ UNCHANGED <<txs, cache, options, frames, interactionState, handled, pending>>

\* loader.load(contract, from?, to?) where one of the page requests fails.
LoaderLoadFails ==
  /\ NumLoads < MaxLoads
  /\ \E c \in Contracts, from \in {NoKey} \cup (0..Len(txs)),
        to \in {NoKey} \cup (1..Len(txs)),
        page \in 1..(MaxInteractions + 1), status \in GatewayStatuses :
       LET failure == [page |-> page, status |-> status]
           loaded == CacheableLoad(interactionsCache, c, from, to, failure)
       IN  /\ loaded.failedPage # 0
           /\ interactionsCache' = loaded.interactionsCache
           /\ calls' = Append(calls, LoadRecord(c, from, to, failure, loaded))
  /\ UNCHANGED <<txs, cache, options, frames, interactionState, handled, pending>>

LoaderInit ==
  /\ txs = <<>>
  /\ cache = EmptyCache
  /\ options = [ignoreExceptions |-> TRUE, internalWrites |-> FALSE,
                updateCacheForEachInteraction |-> FALSE]
  /\ frames = <<>>
  /\ interactionState = EmptyCache
  /\ handled = <<>>
  /\ calls = <<>>
  /\ interactionsCache = NoInteractionsCache
  /\ pending = None

LoaderWrite ==
  /\ Len(txs) < MaxInteractions
  /\ \E c \in Contracts : txs' = Append(txs, Tx(c, "add", "confirmed", FALSE))
  /\ UNCHANGED <<cache, options, interactionsCache, frames, interactionState, handled,
                 calls, pending>>

\* The contract's interactions with from < sort-key <= to, among the
\* interactions written when the call was made.
InRange(call) ==
  SelectSeq([n \in 1..call.upTo |-> n],
            LAMBDA id : /\ txs[id].contract = call.contract
                        /\ (call.from = NoKey \/ SortKeyOf(id) > call.from)
                        /\ (call.to = NoKey \/ SortKeyOf(id) <= call.to))

\* C15: every load(contract, from, to) on the caching loader returns exactly
\* the contract's interactions with from < sort-key <= to, whatever ranges
\* the calls before it asked for.
C15_LoadReturnsRange ==
  \A n \in 1..Len(calls) :
    (calls[n].op = "load" /\ calls[n].failedPage = 0) =>
      /\ calls[n].outcome = "resolved"
      /\ calls[n].result = InRange(calls[n])

LoaderNext ==
  \/ LoaderWrite
  \/ LoaderLoad
  \/ LoaderLoadFails

SpecLoader == LoaderInit /\ [][LoaderNext]_vars

CtorInit ==
  /\ txs = <<>>
  /\ cache = EmptyCache
  /\ options \in [ignoreExceptions : {FALSE}, internalWrites : {FALSE},
                  updateCacheForEachInteraction : {FALSE}, useConstructor : BOOLEAN]
  /\ frames = <<>>
  /\ interactionState = EmptyCache
  /\ handled = <<>>
  /\ calls = <<>>
  /\ interactionsCache = NoInteractionsCache
  /\ pending = None

CtorWrite == WriteInteraction({"A"}, {"add"})
CtorRead == ReadState({"A"}, MaxReads)

CtorNext ==
  \/ CtorWrite
  \/ CtorRead
  \/ Eval
  \/ Iterate
  \/ Finish
  \/ ReturnRoot

SpecCtor == CtorInit /\ [][CtorNext]_vars

\* What one run of __init would add to the counter: an amount no interaction
\* carries, so that a state tells whether and how often __init ran.
ConstructorAmount == 2 ^ MaxInteractions

ConstructorRuns(state) == state \div ConstructorAmount

\* C17: with useConstructor = true every state returned by readState, however
\* the reads are interleaved with new interactions and whether or not the read
\* resumes from the cache, is the one of __init run exactly once followed by
\* the contract's interactions in order; with useConstructor = false __init
\* never ran.
C17_ConstructorExactness ==
  \A n \in 1..Len(calls) :
    (calls[n].op = "readState" /\ calls[n].outcome = "resolved") =>
      LET state == calls[n].result[1].cachedValue.state
          sortKey == calls[n].result[1].sortKey
      IN  /\ ConstructorRuns(state) = (IF options.useConstructor THEN 1 ELSE 0)
          /\ state % ConstructorAmount = FoldedState(calls[n].contract, sortKey)

\* ---- evolve -------------------------------------------------------------------
EvolveInit == FoldInit
EvolveWrite == WriteInteraction({"A"}, {"add", "evolve", "error"})
EvolveRead == ReadState({"A"}, MaxReads)

EvolveNext ==
  \/ EvolveWrite
  \/ EvolveRead
  \/ Eval
  \/ Iterate
  \/ Finish
  \/ ReturnRoot

SpecEvolve == EvolveInit /\ [][EvolveNext]_vars

\* The source in force for interaction id of contract c: the one set by the
\* last evolve of c before id, or the original one.
SrcInForce(c, id) ==
  LET evolves == {k \in 1..(id - 1) : txs[k].contract = c /\ txs[k].kind = "evolve"}
  IN  IF evolves = {} THEN OriginalSrc
      ELSE CHOOSE k \in evolves : \A other \in evolves : other <= k

\* C18: in every fold, an interaction is handled by the handler of the
\* execution context that the modifiers returned after the interaction before
\* it: interactions after an accepted evolve at sort-key k are handled by the
\* new source, the evolve itself and the interactions before it by the source
\* that was active before.
C18_EvolveRebinding ==
  \A n \in 1..Len(frames) :
    \A id \in DOMAIN frames[n].handledBy :
      frames[n].handledBy[id] = SrcInForce(frames[n].contract, id)

\* One fold handled an evolve with the original source and the interaction
\* after it with the new one.
C18_Witness ==
  /\ frames # <<>>
  /\ Top.cachedState = None
  /\ \E k \in DOMAIN Top.handledBy, id \in DOMAIN Top.handledBy :
       /\ txs[k].kind = "evolve"
       /\ k < id
       /\ Top.handledBy[k] = OriginalSrc
       /\ Top.handledBy[id] = k

\* ---- the sort-key cache on its own ------------------------------------------
CacheValues == {EvalStateResult(state, EmptyMap, EmptyMap) : state \in {1, 2}}

\* prune(), prune(null), prune(n)
PruneArguments ==
  {Some(defaultEntriesStored), None} \cup {Some(n) : n \in (-1)..MaxSortKey}

CacheInit ==
  /\ txs = <<>>
  /\ cache = EmptyCache
  /\ options = [ignoreExceptions |-> TRUE, internalWrites |-> FALSE,
                updateCacheForEachInteraction |-> FALSE]
  /\ frames = <<>>
  /\ interactionState = EmptyCache
  /\ handled = <<>>
  /\ calls = <<>>
  /\ interactionsCache = NoInteractionsCache
  /\ pending = None

\* cache.put(new CacheKey(c, k), v)
CachePutCall ==
  /\ Len(calls) < MaxCacheOps
  /\ \E c \in Contracts, k \in 1..MaxSortKey, v \in CacheValues :
       /\ cache' = CachePut(cache, c, k, v)
       /\ calls' = Append(calls, [op |-> "put", contract |-> c, sortKey |-> k, value |-> v])
  /\ UNCHANGED <<txs, options, interactionsCache, frames, interactionState, handled,
               pending>>

\* cache.delete(c)
CacheDeleteCall ==
  /\ Len(calls) < MaxCacheOps
  /\ \E c \in Contracts :
       /\ cache' = CacheDelete(cache, c)
       /\ calls' = Append(calls, [op |-> "delete", contract |-> c])
  /\ UNCHANGED <<txs, options, interactionsCache, frames, interactionState, handled,
               pending>>

\* cache.prune(entriesStored)
CachePruneCall ==
  /\ Len(calls) < MaxCacheOps
  /\ \E entriesStored \in PruneArguments :
       /\ cache' = CachePrune(cache, entriesStored)
       /\ calls' = Append(calls, [op |-> "prune", entriesStored |-> entriesStored])
  /\ UNCHANGED <<txs, options, interactionsCache, frames, interactionState, handled,
               pending>>

CacheNext ==
  \/ CachePutCall
  \/ CacheDeleteCall
  \/ CachePruneCall

SpecCache == CacheInit /\ [][CacheNext]_vars

\* The reference: the set of entries <<contract, sort-key, value>> a sorted
\* map holds after the first n calls.  A prune keeps an entry when at most N
\* entries of its contract have a sort-key at or above its own.
RECURSIVE Reference(_)
Reference(n) ==
  IF n = 0
    THEN {}
    ELSE LET before == Reference(n - 1)
             call == calls[n]
         IN  CASE call.op = "put" ->
                    {e \in before : ~(e[1] = call.contract /\ e[2] = call.sortKey)}
                      \cup {<<call.contract, call.sortKey, call.value>>}
               [] call.op = "delete" ->
                    {e \in before : e[1] # call.contract}
               [] call.op = "prune" ->
                    LET N == IF call.entriesStored = None \/ call.entriesStored[1] < 1
                               THEN 1 ELSE call.entriesStored[1]
                    IN  {e \in before :
                           Cardinality({o \in before : o[1] = e[1] /\ o[2] >= e[2]}) <= N}

\* The entry of c with the greatest sort-key among those the reference holds
\* at or below k, as Some(result), or None.
ReferenceLessOrEqual(c, k) ==
  LET held == {e \in Reference(Len(calls)) : e[1] = c /\ e[2] <= k}
  IN  IF held = {}
        THEN None
        ELSE LET e == CHOOSE x \in held : \A y \in held : y[2] <= x[2]
             IN  Some(SortKeyCacheResult(e[2], e[3]))

\* C19: after any sequence of put, delete and prune, get(c, k) returns k with
\* the last value put at k iff c holds k, and null otherwise; getLast(c)
\* returns the entry of c with the greatest sort-key; getLessOrEqual(c, k) the
\* entry of c with the greatest sort-key <= k, or null; whatever the other
\* contracts hold.
C19_LookupsAgreeWithSortedMap ==
  \A c \in Contracts :
    /\ CacheGetLast(cache, c) = ReferenceLessOrEqual(c, MaxSortKey)
    /\ \A k \in 0..(MaxSortKey + 1) :
         /\ CacheGetLessOrEqual(cache, c, k) = ReferenceLessOrEqual(c, k)
         /\ CacheGet(cache, c, k) =
              (IF \E e \in Reference(Len(calls)) : e[1] = c /\ e[2] = k
                 THEN ReferenceLessOrEqual(c, k) ELSE None)

\* Both contracts hold entries after puts and a prune, and a lookup of A
\* between its two keys, with an entry of B at that key, finds A's smaller one.
C19_Witness ==
  /\ \E n \in 1..Len(calls) : calls[n].op = "prune"
  /\ DOMAIN cache["A"] = {1, 3}
  /\ DOMAIN cache["B"] = {2}
  /\ CacheGetLessOrEqual(cache, "A", 2) = Some(SortKeyCacheResult(1, cache["A"][1]))

\* The sort-keys of the n greatest entries of a sub-level (all of them if it
\* holds fewer).
Greatest(m, n) == {k \in DOMAIN m : Cardinality({o \in DOMAIN m : o >= k}) <= n}

\* C20: prune(N) leaves every contract exactly its min(N, count) entries with
\* the greatest sort-keys, their values unchanged, so that getLast answers the
\* same before and after; a null, zero or negative N counts as 1; a contract
\* with fewer than N entries is left as it is.
C20_PruneKeepsGreatest ==
  [][(Len(calls') = Len(calls) + 1 /\ calls'[Len(calls')].op = "prune") =>
       LET given == calls'[Len(calls')].entriesStored
           N == IF given = None \/ given[1] < 1 THEN 1 ELSE given[1]
       IN  \A c \in Contracts :
             /\ DOMAIN cache'[c] = Greatest(cache[c], N)
             /\ \A k \in DOMAIN cache'[c] : cache'[c][k] = cache[c][k]
             /\ CacheGetLast(cache', c) = CacheGetLast(cache, c)
             /\ Cardinality(DOMAIN cache[c]) < N => cache'[c] = cache[c]]_vars

\* prune(2) on a contract with three entries left the two greatest.
C20_Witness ==
  /\ Len(calls) = 4
  /\ calls[4].op = "prune"
  /\ calls[4].entriesStored = Some(2)
  /\ \A n \in 1..3 : calls[n].op = "put" /\ calls[n].contract = "A"
  /\ DOMAIN cache["A"] = {2, 3}

\* ---- eval on any execution context -------------------------------------------
\* Lists of at most n elements of S.
SeqsUpTo(S, n) == UNION {[1..m -> S] : m \in 0..n}

EvalCachedStates ==
  {None} \cup {Some(SortKeyCacheResult(k, EvalStateResult(k, EmptyMap, EmptyMap))) :
                 k \in 0..MaxMissing}

\* stateEvaluator.eval(executionContext, currentTx) with any cached state, any
\* list of missing interactions and any call stack.
EvalContext ==
  /\ frames = <<>>
  /\ calls = <<>>
  /\ \E c \in Contracts, requested \in {NoKey} \cup (1..MaxMissing),
        cachedState \in EvalCachedStates,
        sortedInteractions \in SeqsUpTo(1..MaxMissing, MaxMissing),
        currentTx \in SeqsUpTo({StackEntry(o, id) : o \in Contracts, id \in 1..MaxMissing},
                               MaxStack) :
       frames' = <<[NewFrame(c, requested, currentTx, TRUE, "root", cache) EXCEPT
                      !.cachedState = cachedState,
                      !.sortedInteractions = sortedInteractions]>>
  /\ UNCHANGED <<txs, cache, options, interactionsCache, interactionState, handled, calls,
               pending>>

EvalNext ==
  \/ EvalContext
  \/ Eval
  \/ ReturnRoot

SpecEval == CacheInit /\ [][EvalNext]_vars

EvalStep == frames # <<>> /\ Top.pc = "eval" /\ frames' # frames

\* C25: when the cached state's sort-key is the requested one, eval returns
\* the cached entry as it is, gives its state to the handler through
\* initState, handles no interaction and writes nothing to the cache, whatever
\* the list of missing interactions and the call stack hold.
C25_ExactCacheHit ==
  [][(/\ EvalStep
      /\ Top.cachedState # None
      /\ Top.cachedState[1].sortKey = Top.requestedSortKey)
     => /\ NextTop.pc = "done"
        /\ NextTop.result = Top.cachedState
        /\ NextTop.handlerState = Some(Top.cachedState[1].cachedValue.state)
        /\ NextTop.i = 0
        /\ handled' = handled
        /\ cache' = cache]_vars

\* An exact hit with missing interactions and with stack entries that name
\* this contract.
C25_Witness ==
  /\ frames # <<>>
  /\ Top.pc = "done"
  /\ Top.path = "exact"
  /\ Len(Top.sortedInteractions) = MaxMissing
  /\ \E n \in 1..Len(Top.currentTx) :
       /\ Top.currentTx[n].contractTxId = Top.contract
       /\ Top.currentTx[n].interactionTxId = Top.sortedInteractions[1]

\* The positions of the list whose interaction is on the stack paired with
\* contract c.
OnStack(list, stack, c) ==
  {p \in 1..Len(list) :
     \E n \in 1..Len(stack) :
       stack[n].contractTxId = c /\ stack[n].interactionTxId = list[p]}

\* C26: after the inf-loop guard the list to evaluate is the prefix of the
\* original list before the earliest interaction that is on the stack paired
\* with this contract; entries of other contracts and ids that are not in the
\* list remove nothing.
C26_InfLoopGuard ==
  [][(/\ EvalStep
      /\ ~(Top.cachedState # None /\ Top.cachedState[1].sortKey = Top.requestedSortKey))
     => LET found == OnStack(Top.sortedInteractions, Top.currentTx, Top.contract)
        IN  NextTop.sortedInteractions =
              (IF found = {}
                 THEN Top.sortedInteractions
                 ELSE SubSeq(Top.sortedInteractions, 1,
                             (CHOOSE p \in found : \A q \in found : p <= q) - 1))]_vars

\* The fold starts on a list of one interaction that an entry of the other
\* contract names, with an entry of this contract for another interaction.
C26_Witness ==
  /\ frames # <<>>
  /\ Top.pc = "loop"
  /\ Top.length = 1
  /\ Len(Top.currentTx) = MaxStack
  /\ \E n \in 1..Len(Top.currentTx) :
       /\ Top.currentTx[n].contractTxId # Top.contract
       /\ Top.currentTx[n].interactionTxId = Top.sortedInteractions[1]
  /\ \E n \in 1..Len(Top.currentTx) :
       /\ Top.currentTx[n].contractTxId = Top.contract
       /\ Top.currentTx[n].interactionTxId # Top.sortedInteractions[1]

\* ---- the executor factory ------------------------------------------------------
\* A contract definition as create reads it: its type, the id of its source
\* and whether the normalized source contains 'unsafeClient' and 'BigInt'.
Sources == {"src1", "src2"}

Definitions ==
  [contractType : {"js", "wasm"}, srcTxId : Sources,
   unsafeClient : BOOLEAN, bigInt : BOOLEAN]

\* The options create reads; "other" is a value of unsafeClient outside
\* allow / skip / throw.
FactoryOptions ==
  [unsafeClient : {"allow", "skip", "throw", "other"}, allowBigInt : BOOLEAN,
   whitelistSources : SUBSET Sources]

\* The 'contract-blacklist' plugin: not registered, or what its process does
\* for the contract.
BlacklistPlugins == {"absent", "false", "true", "throws"}

\* A blacklist check for which a plugin that throws counts as a rejection.
BlacklistContractsStrict(plugin) ==
  IF plugin \in {"true", "throws"} THEN "ContractError:blacklistedSkip" ELSE "none"

\* blacklistContracts: the error thrown, or "none".
BlacklistContracts(plugin) ==
  IF plugin = "true" THEN "ContractError:blacklistedSkip" ELSE "none"

\* checkWhiteListContractSources: the error thrown, or "none".
CheckWhiteListContractSources(contractDefinition, evaluationOptions) ==
  IF /\ evaluationOptions.whitelistSources # {}
     /\ contractDefinition.srcTxId \notin evaluationOptions.whitelistSources
    THEN "NonWhitelistedSourceError"
    ELSE "none"

\* A policy under which 'skip' lets the source through.
UnsafeClientSkipAllowed(contractDefinition, evaluationOptions) ==
  IF ~contractDefinition.unsafeClient THEN "none"
  ELSE CASE evaluationOptions.unsafeClient \in {"allow", "skip"} -> "none"
         [] OTHER -> "Error"

\* The switch on evaluationOptions.unsafeClient for a source that contains
\* 'unsafeClient': the error thrown, or "none".
UnsafeClient(contractDefinition, evaluationOptions) ==
  IF ~contractDefinition.unsafeClient THEN "none"
  ELSE CASE evaluationOptions.unsafeClient = "allow" -> "none"
         [] evaluationOptions.unsafeClient = "throw" -> "Error"
         [] evaluationOptions.unsafeClient = "skip" -> "ContractError:unsafeClientSkip"
         [] OTHER -> "Error"

BigIntCheck(contractDefinition, evaluationOptions) ==
  IF ~evaluationOptions.allowBigInt /\ contractDefinition.bigInt THEN "Error" ELSE "none"

Handler(api) == [outcome |-> "handler", handler |-> api, error |-> "none"]
Rejected(e) == [outcome |-> "rejected", handler |-> "none", error |-> e]

\* HandlerExecutorFactory.create
Create(contractDefinition, evaluationOptions, plugin) ==
  LET blacklisted == IF plugin # "absent" THEN BlacklistContracts(plugin) ELSE "none"
      whitelisted == CheckWhiteListContractSources(contractDefinition, evaluationOptions)
      unsafe == UnsafeClient(contractDefinition, evaluationOptions)
      bigInt == BigIntCheck(contractDefinition, evaluationOptions)
  IN  IF blacklisted # "none" THEN Rejected(blacklisted)
      ELSE IF whitelisted # "none" THEN Rejected(whitelisted)
      ELSE IF contractDefinition.contractType = "wasm" THEN Handler("WasmHandlerApi")
      ELSE IF unsafe # "none" THEN Rejected(unsafe)
      ELSE IF bigInt # "none" THEN Rejected(bigInt)
      ELSE Handler("JsHandlerApi")

\* executorFactory.create(contractDefinition, evaluationOptions, warp, ...)
FactoryCreate ==
  /\ calls = <<>>
  /\ \E d \in Definitions, o \in FactoryOptions, plugin \in BlacklistPlugins :
       calls' = <<[op |-> "create", definition |-> d, options |-> o, plugin |-> plugin,
                   created |-> Create(d, o, plugin)]>>
  /\ UNCHANGED <<txs, cache, options, interactionsCache, frames, interactionState, handled,
               pending>>

SpecFactory == CacheInit /\ [][FactoryCreate]_vars

\* The checks of create other than the unsafe-client policy let the call through.
OthersAccept(call) ==
  /\ call.plugin # "true"
  /\ CheckWhiteListContractSources(call.definition, call.options) = "none"
  /\ BigIntCheck(call.definition, call.options) = "none"

\* C22: for a JS source that contains unsafeClient, create throws a plain
\* error when unsafeClient is 'throw', a ContractError of subtype
\* unsafeClientSkip when it is 'skip', returns a handler when it is 'allow'
\* and throws a plain error for any other value; for a source that does not
\* contain it the option changes nothing; a create that throws returns no
\* handler.  (Stated for calls that the other checks of create let through.)
C22_UnsafeClientPolicy ==
  \A n \in 1..Len(calls) :
    LET call == calls[n]
        policy == call.options.unsafeClient
    IN  /\ call.created.outcome = "rejected" => call.created.handler = "none"
        /\ (call.definition.contractType = "js" /\ OthersAccept(call)) =>
              IF call.definition.unsafeClient
                THEN CASE policy = "throw" -> call.created = Rejected("Error")
                       [] policy = "skip" ->
                            call.created = Rejected("ContractError:unsafeClientSkip")
                       [] policy = "allow" -> call.created.outcome = "handler"
                       [] OTHER -> call.created = Rejected("Error")
                ELSE call.created.outcome = "handler"

\* create threw for an unsafe source under 'skip'.
C22_Witness ==
  /\ calls # <<>>
  /\ calls[1].definition.contractType = "js"
  /\ calls[1].definition.unsafeClient
  /\ calls[1].options.unsafeClient = "skip"
  /\ OthersAccept(calls[1])
  /\ calls[1].created.error = "ContractError:unsafeClientSkip"

\* C23: create throws NonWhitelistedSourceError iff whitelistSources is not
\* empty and does not hold the definition's srcTxId, unless the contract is
\* blacklisted: the blacklist is checked first and throws ContractError
\* blacklistedSkip; a blacklist plugin that throws counts as 'not
\* blacklisted'; no handler is created when either check rejects.
C23_SourceLists ==
  \A n \in 1..Len(calls) :
    LET call == calls[n]
        listed == \/ call.options.whitelistSources = {}
                  \/ call.definition.srcTxId \in call.options.whitelistSources
    IN  IF call.plugin = "true"
          THEN call.created = Rejected("ContractError:blacklistedSkip")
          ELSE /\ call.created.error = "NonWhitelistedSourceError" <=> ~listed
               /\ ~listed => call.created.outcome = "rejected"
               /\ call.created.error # "ContractError:blacklistedSkip"

\* A contract both blacklisted and not whitelisted was rejected as blacklisted.
C23_Witness ==
  /\ calls # <<>>
  /\ calls[1].plugin = "true"
  /\ calls[1].options.whitelistSources = {"src1"}
  /\ calls[1].definition.srcTxId = "src2"
  /\ calls[1].created.error = "ContractError:blacklistedSkip"

\* A plugin that throws let a whitelisted source through.
C23_WitnessPluginThrows ==
  /\ calls # <<>>
  /\ calls[1].plugin = "throws"
  /\ calls[1].created.outcome = "handler"

\* ---- a range lookup beside puts -----------------------------------------------
\* getLast (sortKey = NoKey) and getLessOrEqual take two asynchronous steps:
\* the scan of the keys and the read of the value under the key found.  Other
\* calls of the cache run between the two.
LookupKeys(ch, key, sortKey) ==
  KeysReverse([k \in {x \in DOMAIN ch[key] : sortKey = NoKey \/ x <= sortKey} |-> ch[key][k]], 1)

\* const keys = await contractCache.keys({reverse: true, [lte: sortKey,] limit: 1}).all()
LookupScan ==
  /\ pending = None
  /\ \E c \in Contracts, sortKey \in {NoKey} \cup (1..MaxSortKey) :
       LET keys == LookupKeys(cache, c, sortKey)
       IN  pending' = Some([op |-> "lookup", contract |-> c, sortKey |-> sortKey,
                            keys |-> keys, startedAt |-> Len(calls),
                            endedAt |-> IF keys = <<>> THEN Len(calls) ELSE NoKey,
                            pc |-> IF keys = <<>> THEN "resolved" ELSE "scanned",
                            result |-> None])
  /\ UNCHANGED <<txs, cache, options, interactionsCache, frames, interactionState,
                 handled, calls>>

\* return {sortKey: keys[0], cachedValue: await contractCache.get(keys[0])}
LookupRead ==
  /\ pending # None
  /\ pending[1].op = "lookup"
  /\ pending[1].pc = "scanned"
  /\ LET call == pending[1]
         sortKey == call.keys[1]
     IN  pending' = Some(
           IF sortKey \in DOMAIN cache[call.contract]
             THEN [call EXCEPT !.pc = "resolved", !.endedAt = Len(calls),
                               !.result = Some(SortKeyCacheResult(
                                                 sortKey, cache[call.contract][sortKey]))]
             ELSE [call EXCEPT !.pc = "rejected", !.endedAt = Len(calls)])
  /\ UNCHANGED <<txs, cache, options, interactionsCache, frames, interactionState,
                 handled, calls>>

\* cache.put(new CacheKey(c, k), v), from another asynchronous call
LookupPut ==
  /\ Len(calls) < MaxLookupPuts
  /\ \E c \in Contracts, k \in 1..MaxSortKey, v \in CacheValues :
       /\ cache' = CachePut(cache, c, k, v)
       /\ calls' = Append(calls, [op |-> "put", contract |-> c, sortKey |-> k, value |-> v])
  /\ UNCHANGED <<txs, options, interactionsCache, frames, interactionState, handled,
                 pending>>

LookupNext ==
  \/ LookupPut
  \/ LookupScan
  \/ LookupRead

SpecLookup == CacheInit /\ [][LookupNext]_vars

\* What an atomic lookup of (c, sortKey) answers after the first n calls.
HeldAt(n, c, sortKey) ==
  LET held == {e \in Reference(n) : e[1] = c /\ (sortKey = NoKey \/ e[2] <= sortKey)}
  IN  IF held = {}
        THEN None
        ELSE LET e == CHOOSE x \in held : \A y \in held : y[2] <= x[2]
             IN  Some(SortKeyCacheResult(e[2], e[3]))

\* C21: a getLast or getLessOrEqual that runs beside puts on the same contract
\* returns a (sortKey, value) pair that the contract held at one moment
\* during the call and that was the greatest qualifying entry at that moment.
C21_RangeLookupIsAtomic ==
  (pending # None /\ pending[1].op = "lookup" /\ pending[1].pc # "scanned") =>
    /\ pending[1].pc = "resolved"
    /\ \E n \in pending[1].startedAt..pending[1].endedAt :
         pending[1].result = HeldAt(n, pending[1].contract, pending[1].sortKey)

\* ---- JsHandlerApi.handle and its timer ------------------------------------------
\* The key-value store of the contract: what is stored, and the changes of
\* the interaction in progress, as counts of entries.
NoKv == [stored |-> 0, staged |-> 0]

KvCommit(kv) == [stored |-> kv.stored + kv.staged, staged |-> 0]

\* A rollback that stores the changes.
KvRollbackStores(kv) == [stored |-> kv.stored + kv.staged, staged |-> 0]

KvRollback(kv) == [stored |-> kv.stored, staged |-> 0]

\* A finally block that leaves the timer running.
TimerLeft(timer) == timer

\* clearTimeout(timeoutId), in the timer's callback or in the finally block
ClearTimeout(timer) == IF timer = "fired" THEN "fired" ELSE "cleared"

\* What the guest does when it settles: it returns a result, returns nothing
\* usable, or throws a ContractError or another error.
GuestOutcomes == {"ok", "unexpected", "ContractError", "Error"}

\* The InteractionResult of handle when the race is settled by the guest.
GuestResult(outcome, currentState) ==
  CASE outcome = "ok" ->
         [type |-> "ok", state |-> currentState + 1, result |-> "result",
          errorMessage |-> "undefined"]
    [] outcome = "ContractError" ->
         [type |-> "error", state |-> currentState, result |-> "null",
          errorMessage |-> "ContractError"]
    [] OTHER ->
         [type |-> "exception", state |-> currentState, result |-> "null",
          errorMessage |-> "Error"]

\* reject('timeout') is caught: 'timeout' has no name, so the default branch
\* of the switch answers.
TimeoutResult(currentState) ==
  [type |-> "exception", state |-> currentState, result |-> "null",
   errorMessage |-> "timeout"]

HandleState == IF calls = <<>> THEN 0 ELSE calls[Len(calls)].result.state
HandleKv == IF calls = <<>> THEN NoKv ELSE calls[Len(calls)].kv

\* handle(...) is called: the timer is started and the guest function runs.
HandleStart ==
  /\ pending = None
  /\ Len(calls) < MaxHandles
  /\ pending' = Some([op |-> "handle", pc |-> "racing", timer |-> "armed",
                       guest |-> "running", currentState |-> HandleState,
                       kv |-> HandleKv, result |-> TimeoutResult(HandleState)])
  /\ UNCHANGED <<txs, cache, options, interactionsCache, frames, interactionState,
                 handled, calls>>

\* The guest writes to the key-value store.
GuestPut ==
  /\ pending # None
  /\ pending[1].op = "handle"
  /\ pending[1].pc = "racing"
  /\ pending[1].kv.staged = 0
  /\ pending' = Some([pending[1] EXCEPT !.kv.staged = 1])
  /\ UNCHANGED <<txs, cache, options, interactionsCache, frames, interactionState,
                 handled, calls>>

\* The guest settles before the timer fires: commit and 'ok', or rollback and
\* 'error' / 'exception'; the finally block clears the timer.
GuestSettles ==
  /\ pending # None
  /\ pending[1].op = "handle"
  /\ pending[1].pc = "racing"
  /\ \E outcome \in GuestOutcomes :
       pending' = Some([pending[1] EXCEPT
                          !.pc = "done", !.guest = outcome,
                          !.timer = ClearTimeout(@),
                          !.kv = IF outcome = "ok" THEN KvCommit(@) ELSE KvRollback(@),
                          !.result = GuestResult(outcome, pending[1].currentState)])
  /\ UNCHANGED <<txs, cache, options, interactionsCache, frames, interactionState,
                 handled, calls>>

\* The timer fires before the guest settles: the race rejects with 'timeout'.
TimerFires ==
  /\ pending # None
  /\ pending[1].op = "handle"
  /\ pending[1].pc = "racing"
  /\ pending[1].timer = "armed"
  /\ pending' = Some([pending[1] EXCEPT
                         !.pc = "done", !.timer = ClearTimeout("fired"),
                         !.kv = KvRollback(@),
                         !.result = TimeoutResult(pending[1].currentState)])
  /\ UNCHANGED <<txs, cache, options, interactionsCache, frames, interactionState,
                 handled, calls>>

\* handle resolves with its result.
HandleReturn ==
  /\ pending # None
  /\ pending[1].op = "handle"
  /\ pending[1].pc = "done"
  /\ calls' = Append(calls, [op |-> "handle", result |-> pending[1].result,
                             kv |-> pending[1].kv, timer |-> pending[1].timer,
                             guest |-> pending[1].guest])
  /\ pending' = None
  /\ UNCHANGED <<txs, cache, options, interactionsCache, frames, interactionState,
                 handled>>

TimerNext ==
  \/ HandleStart
  \/ GuestPut
  \/ GuestSettles
  \/ TimerFires
  \/ HandleReturn

SpecTimer == CacheInit /\ [][TimerNext]_vars

Racing == pending # None /\ pending[1].op = "handle" /\ pending[1].pc = "racing"

\* C24: if the timer fires before the guest returns, handle resolves with
\* type 'exception', the state it was given and result null, and the changes
\* the interaction made to the key-value store are rolled back; if the guest
\* returns first the timer is cleared, so that no timer is left to fire in
\* this or a later handle, and the result is the guest's.
C24_InteractionTimeout ==
  /\ [][(Racing /\ pending' # pending /\ pending'[1].pc = "done") =>
          IF pending'[1].guest = "running"
            THEN /\ pending'[1].result.type = "exception"
                 /\ pending'[1].result.state = pending[1].currentState
                 /\ pending'[1].result.result = "null"
                 /\ pending'[1].kv = [stored |-> pending[1].kv.stored, staged |-> 0]
            ELSE /\ pending'[1].timer = "cleared"
                 /\ pending'[1].result =
                      GuestResult(pending'[1].guest, pending[1].currentState)]_vars
  /\ [](\A n \in 1..Len(calls) : calls[n].timer # "armed")

\* A handle timed out after the guest wrote to the store, following one that
\* the guest settled.
C24_Witness ==
  /\ Len(calls) = 2
  /\ calls[1].guest = "ok"
  /\ calls[1].kv.stored = 1
  /\ calls[2].guest = "running"
  /\ calls[2].timer = "fired"
  /\ calls[2].result = TimeoutResult(1)
  /\ calls[2].kv.stored = 1

\* ---- a writing contract whose interaction may fail after its write ------------
AdoptKinds == {"add", "readWrite", "writeThrow"}

AdoptWrite ==
  /\ frames = <<>>
  /\ Len(txs) < MaxInteractions
  /\ \E c \in Contracts, kind \in AdoptKinds, st \in WriteStatuses :
       txs' = Append(txs, Tx(c, kind, st, FALSE))
  /\ UNCHANGED <<cache, options, interactionsCache, frames, interactionState, handled, calls,
               pending>>

AdoptNext ==
  \/ AdoptWrite
  \/ WritesRead
  \/ Eval
  \/ Iterate
  \/ IterateInternalWrite
  \/ ReturnToInternalWrite
  \/ CallHook
  \/ ReturnToReadHook
  \/ ReturnToWriteHook
  \/ Finish
  \/ ReturnRoot

SpecAdopt == WritesInit /\ [][AdoptNext]_vars

\* The nested readState of the writing contract returns to the fold.
WriterReturns ==
  /\ Len(frames) >= 2
  /\ Top.purpose = "internalWrite"
  /\ Top.pc = "done"
  /\ Top.result # None
  /\ Len(frames') = Len(frames) - 1

IterationEnds(k) ==
  /\ k <= Len(frames')
  /\ frames'[k].contract = frames[k].contract
  /\ frames'[k].i = frames[k].i + 1

EndedInteraction(k) == frames[k].sortedInteractions[frames[k].i + 1]

C28_WitnessNested ==
  /\ Len(frames) >= 2
  /\ ~Top.isRoot
  /\ Top.scratch.calls = <<"update">>

\* ---- staged effects over several root interactions -------------------------------
\* Contract A is read once.  A's interactions are direct ones and ones that
\* write to B and then fail; B has direct interactions.
StagedWrite ==
  /\ frames = <<>>
  /\ calls = <<>>
  /\ Len(txs) < MaxStaged
  /\ \E st \in WriteStatuses :
       \/ \E kind \in {"add", "writeThrow"} : txs' = Append(txs, Tx("A", kind, st, FALSE))
       \/ txs' = Append(txs, Tx("B", "add", st, FALSE))
  /\ UNCHANGED <<cache, options, interactionsCache, frames, interactionState, handled, calls,
               pending>>

StagedRead == ReadState({"A"}, 1)

StagedNext ==
  \/ StagedWrite
  \/ StagedRead
  \/ Eval
  \/ Iterate
  \/ IterateInternalWrite
  \/ ReturnToInternalWrite
  \/ CallHook
  \/ ReturnToWriteHook
  \/ Finish
  \/ ReturnRoot

SpecStaged == WritesInit /\ [][StagedNext]_vars

\* C29: the end of a root iteration that does not commit leaves the
\* persistent cache as it is, and a commit writes no entry that was staged
\* while an earlier interaction that ended invalid was processed.
C29_StagedEffectsAtomic ==
  [][(frames # <<>> /\ frames[1].isRoot /\ IterationEnds(1)) =>
       IF "commit" \in {frames'[1].scratch.calls[n] : n \in 1..Len(frames'[1].scratch.calls)}
         THEN frames'[1].scratch.flushed \cap frames[1].scratch.leftInvalid = {}
         ELSE cache' = cache]_vars

\* ---- the caching loader: incremental fetch -----------------------------------------
\* A load that every page request answers is recorded for a contract the
\* loader holds a list for.
MemoizedLoad ==
  /\ Len(calls') = Len(calls) + 1
  /\ calls'[Len(calls')].op = "load"
  /\ calls'[Len(calls')].failedPage = 0
  /\ interactionsCache[calls'[Len(calls')].contract] # None

Ascending(list) ==
  \A m, n \in 1..Len(list) : m < n => SortKeyOf(list[m]) < SortKeyOf(list[n])

\* C30: for a contract the loader holds a list for, load calls the delegate
\* exactly when the last sort-key of the list (the genesis sort-key for an
\* empty list) is smaller than toSortKey, once, from that key to toSortKey,
\* and appends what the delegate returns to the list; otherwise the delegate
\* is not called and the list is returned as it is.  The list is always in
\* ascending sort-key order without duplicates.
C30_IncrementalFetch ==
  /\ [][MemoizedLoad =>
          LET call == calls'[Len(calls')]
              memo == interactionsCache[call.contract][1]
              last == IF memo = <<>> THEN genesisSortKey
                      ELSE SortKeyOf(memo[Len(memo)])
          IN  IF call.to = NoKey \/ last < call.to
                THEN /\ call.delegate = <<[from |-> last, to |-> call.to]>>
                     /\ call.result = memo \o Load(call.contract, last, call.to)
                     /\ interactionsCache'[call.contract] = Some(call.result)
                ELSE /\ call.delegate = <<>>
                     /\ call.result = memo
                     /\ interactionsCache' = interactionsCache]_vars
  /\ [](\A c \in Contracts :
          interactionsCache[c] # None => Ascending(interactionsCache[c][1]))

\* A first load up to sort-key 1, then one up to the same key, which the
\* list answers.
C30_Witness ==
  /\ Len(txs) = 2
  /\ txs[1].contract = "A" /\ txs[2].contract = "A"
  /\ Len(calls) = 2
  /\ calls[1].contract = "A" /\ calls[1].to = 1 /\ calls[1].result = <<1>>
  /\ calls[2].contract = "A" /\ calls[2].to = 1
  /\ calls[2].delegate = <<>>
  /\ calls[2].result = <<1>>

\* A first load up to sort-key 1, then one up to sort-key 2, which fetches
\* the second interaction and appends it.
C30_WitnessFetch ==
  /\ Len(txs) = 2
  /\ txs[1].contract = "A" /\ txs[2].contract = "A"
  /\ Len(calls) = 2
  /\ calls[1].contract = "A" /\ calls[1].to = 1 /\ calls[1].result = <<1>>
  /\ calls[2].contract = "A" /\ calls[2].to = 2
  /\ calls[2].delegate = <<[from |-> 1, to |-> 2]>>
  /\ interactionsCache["A"] = Some(<<1, 2>>)

\* ---- the gateway loader, request by request ----------------------------------------
\* A response of the gateway: paging.pages and the interactions of the page,
\* each with the status the gateway gives it.
ResponseStatuses == {"confirmed", "not_processed"}

Responses(page) ==
  [pages : 0..MaxPagesReported,
   interactions : {<<>>} \cup {<<[id |-> page, status |-> st]>> : st \in ResponseStatuses}]

\* interactions.push({...interaction.interaction, confirmationStatus: interaction.status})
PushAll(interactions, response) ==
  interactions \o [n \in 1..Len(response.interactions) |->
                    [id |-> response.interactions[n].id,
                     confirmationStatus |-> response.interactions[n].status]]

\* A loop that goes on while page <= totalPages.
OnePageMore(page, totalPages) == page <= totalPages

\* while (page < totalPages)
MorePages(page, totalPages) == page < totalPages

\* load is called: page and totalPages are 0, and the do-while loop requests
\* page ++page.
PagedStart ==
  /\ pending = None
  /\ Len(calls) < MaxPagedLoads
  /\ pending' = Some([op |-> "gateway", pc |-> "request", page |-> 1, totalPages |-> 0,
                       requested |-> <<1>>, responses |-> <<>>, interactions |-> <<>>])
  /\ UNCHANGED <<txs, cache, options, interactionsCache, frames, interactionState,
                 handled, calls>>

\* The gateway answers the request in flight: the interactions are pushed,
\* and the next page is requested or the loop is left.
PagedResponse ==
  /\ pending # None
  /\ pending[1].op = "gateway"
  /\ pending[1].pc = "request"
  /\ \E response \in Responses(pending[1].page) :
       LET more == MorePages(pending[1].page, response.pages)
       IN  pending' =
             Some([pending[1] EXCEPT
                     !.totalPages = response.pages,
                     !.responses = Append(@, response),
                     !.interactions = PushAll(@, response),
                     !.page = IF more THEN @ + 1 ELSE @,
                     !.requested = IF more THEN Append(@, pending[1].page + 1) ELSE @,
                     !.pc = IF more THEN "request" ELSE "done"])
  /\ UNCHANGED <<txs, cache, options, interactionsCache, frames, interactionState,
                 handled, calls>>

\* load returns the interactions.
PagedReturn ==
  /\ pending # None
  /\ pending[1].op = "gateway"
  /\ pending[1].pc = "done"
  /\ calls' = Append(calls, [op |-> "gateway", requested |-> pending[1].requested,
                             responses |-> pending[1].responses,
                             result |-> pending[1].interactions])
  /\ pending' = None
  /\ UNCHANGED <<txs, cache, options, interactionsCache, frames, interactionState,
                 handled>>

PagedNext ==
  \/ PagedStart
  \/ PagedResponse
  \/ PagedReturn

\* A request is answered and a finished load returns: the gateway answers
\* every request.
SpecPaged ==
  CacheInit /\ [][PagedNext]_vars /\ WF_vars(PagedResponse) /\ WF_vars(PagedReturn)

RECURSIVE Concatenated(_, _)
Concatenated(responses, n) ==
  IF n = 0 THEN <<>>
  ELSE Concatenated(responses, n - 1)
         \o [m \in 1..Len(responses[n].interactions) |->
               [id |-> responses[n].interactions[m].id,
                confirmationStatus |-> responses[n].interactions[m].status]]

\* The pages requested so far are 1, 2, ..., one for each response and one
\* for the request in flight, and every response but the last reported more
\* pages than the page it answered.
InPageOrder(load, inFlight) ==
  /\ Len(load.requested) >= 1
  /\ \A n \in 1..Len(load.requested) : load.requested[n] = n
  /\ Len(load.requested) = Len(load.responses) + (IF inFlight THEN 1 ELSE 0)
  /\ \A n \in 1..Len(load.responses) :
       n < Len(load.requested) => n < load.responses[n].pages

\* C31: load requests the pages 1, 2, 3, ... one after another, page 1
\* always, and stops after the first response whose paging.pages is not
\* greater than the page requested; it returns the interactions of all the
\* pages in page order, each with its status as confirmationStatus; and with
\* bounded paging.pages every load returns.
C31_GatewayPagination ==
  /\ [](pending # None =>
          /\ InPageOrder(pending[1], pending[1].pc = "request")
          /\ pending[1].interactions =
               Concatenated(pending[1].responses, Len(pending[1].responses)))
  /\ [](\A n \in 1..Len(calls) :
          /\ InPageOrder(calls[n], FALSE)
          /\ Len(calls[n].requested) >= calls[n].responses[Len(calls[n].requested)].pages
          /\ calls[n].result = Concatenated(calls[n].responses, Len(calls[n].responses)))
  /\ (pending # None) ~> (pending = None)

\* A load that requested three pages, the gateway reporting three pages and
\* then two, and that returned the interactions of the first and third.
C31_Witness ==
  /\ Len(calls) = 1
  /\ calls[1].requested = <<1, 2, 3>>
  /\ calls[1].responses[1].pages = 3
  /\ calls[1].responses[3].pages = 2
  /\ calls[1].result = <<[id |-> 1, confirmationStatus |-> "confirmed"],
                         [id |-> 3, confirmationStatus |-> "not_processed"]>>

\* ---- handle: the classification of the guest's outcome -----------------------------
\* Values of the guest's state and result: not given, null, a value that is
\* defined and falsy (0, '', false), and an object.
JsValues == {"undefined", "null", "0", "object"}

Truthy(v) == v = "object"

\* What the guest does: it returns an object with a state and a result,
\* returns undefined, or throws: a ContractError, another Error, a string, or
\* null / undefined.  It may change the state object it was given first.
Thrown == {"ContractError", "Error", "string", "null"}

GuestBehaviours ==
  [kind : {"returns"}, state : JsValues, result : JsValues, thrown : {"none"},
   mutates : BOOLEAN]
    \cup [kind : {"returnsUndefined"}, state : {"undefined"}, result : {"undefined"},
          thrown : {"none"}, mutates : BOOLEAN]
    \cup [kind : {"throws"}, state : {"undefined"}, result : {"undefined"},
          thrown : Thrown, mutates : BOOLEAN]

CurrentStates == {"s1", "s2"}

\* The catch block: switch (err.name).  null and undefined have no
\* properties, so reading err.name throws a TypeError out of the catch block.
Catch(err, currentState) ==
  CASE err = "null" ->
         [outcome |-> "rejected", type |-> "none", state |-> "none", result |-> "none",
          error |-> "TypeError"]
    [] err = "ContractError" ->
         [outcome |-> "resolved", type |-> "error", state |-> currentState,
          result |-> "null", error |-> "none"]
    [] OTHER ->
         [outcome |-> "resolved", type |-> "exception", state |-> currentState,
          result |-> "null", error |-> "none"]

\* What the try block throws when it does not return 'ok'.
Raised(guest) == IF guest.kind = "throws" THEN guest.thrown ELSE "Error"

Ok(guest, currentState) ==
  [outcome |-> "resolved", type |-> "ok",
   state |-> IF Truthy(guest.state) THEN guest.state ELSE currentState,
   result |-> guest.result, error |-> "none"]

\* JsHandlerApi.handle: handlerResult.state !== undefined || handlerResult.result !== undefined
JsHandle(guest, currentState) ==
  IF guest.kind = "returns" /\ (guest.state # "undefined" \/ guest.result # "undefined")
    THEN Ok(guest, currentState)
    ELSE Catch(Raised(guest), currentState)

\* Handler.handle: handlerResult.state || handlerResult.result
LegacyHandle(guest, currentState) ==
  IF guest.kind = "returns" /\ (Truthy(guest.state) \/ Truthy(guest.result))
    THEN Ok(guest, currentState)
    ELSE Catch(Raised(guest), currentState)

\* The state objects: the one of currentResult and the copy handed to the
\* guest (deepCopy, JSON.parse(JSON.stringify(...))); the guest may change the
\* object it is given.
GuestRuns(guest, currentState) ==
  LET heap == [current |-> currentState, stateCopy |-> currentState]
  IN  IF guest.mutates THEN [heap EXCEPT !.stateCopy = "changed"] ELSE heap

Classify ==
  /\ Len(calls) < MaxClassified
  /\ \E impl \in {"JsHandlerApi", "Handler"}, guest \in GuestBehaviours,
        currentState \in CurrentStates :
       LET r == IF impl = "JsHandlerApi" THEN JsHandle(guest, currentState)
                ELSE LegacyHandle(guest, currentState)
       IN  calls' = Append(calls, [op |-> "handle", impl |-> impl, guest |-> guest,
                                   currentState |-> currentState,
                                   currentStateAfter |-> GuestRuns(guest, currentState).current,
                                   outcome |-> r.outcome, type |-> r.type, state |-> r.state,
                                   result |-> r.result, error |-> r.error])
  /\ UNCHANGED <<txs, cache, options, interactionsCache, frames, interactionState,
                 handled, pending>>

SpecClassify == CacheInit /\ [][Classify]_vars

\* C32: handle resolves; with 'ok' exactly when the guest returned a value
\* whose state or result is defined, the current state kept when no state
\* was returned; with 'error' exactly when the guest threw a ContractError;
\* with 'exception' otherwise; 'error' and 'exception' carry the current
\* state and result null; and the state of currentResult is not changed.
C32_ResultClassification ==
  \A n \in 1..Len(calls) :
    LET c == calls[n]
        defined == /\ c.guest.kind = "returns"
                   /\ (c.guest.state # "undefined" \/ c.guest.result # "undefined")
        contractError == c.guest.kind = "throws" /\ c.guest.thrown = "ContractError"
    IN  /\ c.outcome = "resolved"
        /\ c.type = (IF defined THEN "ok" ELSE IF contractError THEN "error" ELSE "exception")
        /\ (c.type = "ok" /\ c.guest.state = "undefined") => c.state = c.currentState
        /\ c.type \in {"error", "exception"} =>
             (c.state = c.currentState /\ c.result = "null")
        /\ c.currentStateAfter = c.currentState

\* ---- handle: the calls on the key-value store --------------------------------------
KvOp(op, ok) == [op |-> op, ok |-> ok]

\* A catch block that answers without rolling back.
CaughtNoRollback(log) == log

\* catch (err) { await this.swGlobal.kv.rollback(); ... }
Caught(log) == Append(log, KvOp("rollback", TRUE))

\* finally { await this.swGlobal.kv.close(); ... }
Finally(log) == Append(log, KvOp("close", TRUE))

\* The calls of one handle on the store, the guest's run among them, and the
\* type of the result: open may fail, and so may commit.
KvHandle(guest, openFails, commitFails) ==
  IF openFails
    THEN [log |-> Finally(Caught(<<KvOp("open", FALSE)>>)),
          answer |-> Catch("Error", "s1")]
    ELSE LET ran == <<KvOp("open", TRUE), KvOp("guest", TRUE)>>
             answer == JsHandle(guest, "s1")
         IN  IF answer.type = "ok"
               THEN IF commitFails
                      THEN [log |-> Finally(Caught(Append(ran, KvOp("commit", FALSE)))),
                            answer |-> Catch("Error", "s1")]
                      ELSE [log |-> Finally(Append(ran, KvOp("commit", TRUE))),
                            answer |-> answer]
               ELSE [log |-> Finally(Caught(ran)), answer |-> answer]

KvLifecycle ==
  /\ Len(calls) < MaxClassified
  /\ \E guest \in GuestBehaviours, openFails, commitFails \in BOOLEAN :
       LET h == KvHandle(guest, openFails, commitFails)
       IN  calls' = Append(calls, [op |-> "kv", guest |-> guest, log |-> h.log,
                                   outcome |-> h.answer.outcome, type |-> h.answer.type])
  /\ UNCHANGED <<txs, cache, options, interactionsCache, frames, interactionState,
                 handled, pending>>

SpecKv == CacheInit /\ [][KvLifecycle]_vars

Positions(log, op) == {n \in 1..Len(log) : log[n].op = op}

InteractionTxs == 1..3
Callers == {"owner", "A", "B"}

\* this.swGlobal._activeTx = interactionTx; this.swGlobal.caller = interaction.caller
AssignActive(swGlobal, interactionData) ==
  [swGlobal EXCEPT !.activeTx = interactionData.interactionTx,
                   !.caller = interactionData.caller]

\* handle(i) is called on the idle instance.
InstanceHandle ==
  /\ pending = None
  /\ \E tx \in InteractionTxs, caller \in Callers :
       LET interactionData == [interactionTx |-> tx, caller |-> caller]
       IN  pending' = Some([op |-> "instance", stack |-> <<interactionData>>,
                            swGlobal |-> AssignActive([activeTx |-> 0, caller |-> "none"],
                                                      interactionData)])
  /\ UNCHANGED <<txs, cache, options, interactionsCache, frames, interactionState,
                 handled, calls>>

\* The running guest calls a contract, and the call comes back to handle on
\* this instance: a write-back to the same contract, or a contract with the
\* same source whose handler the executor cache shares.
InstanceReenter ==
  /\ pending # None
  /\ pending[1].op = "instance"
  /\ Len(pending[1].stack) < MaxReentry
  /\ \E tx \in InteractionTxs, caller \in Callers :
       LET interactionData == [interactionTx |-> tx, caller |-> caller]
       IN  pending' = Some([pending[1] EXCEPT
                              !.stack = Append(@, interactionData),
                              !.swGlobal = AssignActive(@, interactionData)])
  /\ UNCHANGED <<txs, cache, options, interactionsCache, frames, interactionState,
                 handled, calls>>

\* The handle on top returns: nothing in handle writes the global again.
InstanceReturn ==
  /\ pending # None
  /\ pending[1].op = "instance"
  /\ pending' = IF Len(pending[1].stack) = 1
                   THEN None
                   ELSE Some([pending[1] EXCEPT
                                !.stack = SubSeq(@, 1, Len(@) - 1)])
  /\ UNCHANGED <<txs, cache, options, interactionsCache, frames, interactionState,
                 handled, calls>>

InstanceNext ==
  \/ InstanceHandle
  \/ InstanceReenter
  \/ InstanceReturn

SpecInstance == CacheInit /\ [][InstanceNext]_vars

\* C34: while the guest of handle(i) runs, also after a nested handle on the
\* same instance has returned, the active transaction and the caller of the
\* instance's global are those of i.
C34_ActiveTransactionPerHandle ==
  (pending # None /\ pending[1].op = "instance") =>
    LET running == pending[1].stack[Len(pending[1].stack)]
    IN  /\ pending[1].swGlobal.activeTx = running.interactionTx
        /\ pending[1].swGlobal.caller = running.caller

\* ---- the state after an invalid interaction -----------------------------------------
\* C35: an interaction that an evaluation ends with validity false leaves the
\* contract's state as it was before the interaction: after an 'error' or
\* 'exception' of the handler, after an internal write that is invalid in
\* the writing contract, and after a modifier raised a skip error.
C35_InvalidLeavesState ==
  [][\A k \in 1..Len(frames) :
       (/\ IterationEnds(k)
        /\ MapGet(frames'[k].validity, EndedInteraction(k)) = Some(FALSE))
       => frames'[k].currentState = frames[k].currentState]_vars

\* ---- eval and the list of the execution context ------------------------------------
\* C36: eval leaves the sortedInteractions of the execution context it is
\* given as they were: the same interactions in the same order, also when
\* the inf. loop guard removed interactions for this evaluation.
C36_EvalKeepsSortedInteractions ==
  [][EvalStep => frames'[Len(frames')].sortedInteractions = Top.sortedInteractions]_vars

\* ---- the caching loader under concurrent loads -------------------------------------
\* The loads that wait for the delegate, and the number of loads started.
InFlight == IF pending = None THEN <<>> ELSE pending[1].inflight
Started == IF pending = None THEN 0 ELSE pending[1].started

Without(list, k) == SubSeq(list, 1, k - 1) \o SubSeq(list, k + 1, Len(list))

\* What a load stores and returns when the delegate has answered: the
\* delegate's list for a contract that was not memoized when the load
\* started, else the list read when the load started with the delegate's
\* list appended.
StoreLoaded(ic, load, missingInteractions) ==
  IF load.memoized THEN load.cachedInteractions \o missingInteractions
  ELSE missingInteractions

\* load runs up to its await: it reads the memo and calls the delegate, or
\* returns the memoized list at once.
ConcurrentLoadStarts ==
  /\ Started < MaxStartedLoads
  /\ \E c \in {"A"}, from \in {NoKey}, to \in {NoKey} \cup (1..Len(txs)) :
       LET memoized == interactionsCache[c] # None
           cachedInteractions == IF memoized THEN interactionsCache[c][1] ELSE <<>>
           lastCachedKey == IF Len(cachedInteractions) > 0
                              THEN SortKeyOf(cachedInteractions[Len(cachedInteractions)])
                              ELSE genesisSortKey
           load == [contract |-> c, memoized |-> memoized,
                    cachedInteractions |-> cachedInteractions,
                    from |-> IF memoized THEN lastCachedKey ELSE from, to |-> to]
       IN  IF memoized /\ ~SortKeyBefore(lastCachedKey, to)
             THEN /\ pending' = Some([op |-> "loads", started |-> Started + 1,
                                      inflight |-> InFlight])
                  /\ calls' = Append(calls, [op |-> "load", contract |-> c, to |-> to,
                                             delegate |-> FALSE,
                                             result |-> cachedInteractions,
                                             memoBefore |-> cachedInteractions,
                                             memoAfter |-> cachedInteractions])
             ELSE /\ pending' = Some([op |-> "loads", started |-> Started + 1,
                                      inflight |-> Append(InFlight, load)])
                  /\ calls' = calls
  /\ UNCHANGED <<txs, cache, options, interactionsCache, frames, interactionState, handled>>

\* The delegate answers one of the waiting loads, which stores and returns.
ConcurrentLoadEnds ==
  /\ \E k \in 1..Len(InFlight) :
       LET load == InFlight[k]
           missingInteractions == Load(load.contract, load.from, load.to)
           stored == StoreLoaded(interactionsCache, load, missingInteractions)
       IN  /\ interactionsCache' = [interactionsCache EXCEPT ![load.contract] = Some(stored)]
           /\ pending' = Some([pending[1] EXCEPT !.inflight = Without(@, k)])
           /\ calls' = Append(calls, [op |-> "load", contract |-> load.contract,
                                      to |-> load.to, delegate |-> TRUE, result |-> stored,
                                      memoBefore |->
                                        IF interactionsCache[load.contract] = None THEN <<>>
                                        ELSE interactionsCache[load.contract][1],
                                      memoAfter |-> stored])
  /\ UNCHANGED <<txs, cache, options, frames, interactionState, handled>>

ConcurrentWrite ==
  /\ pending = None
  /\ Len(txs) < MaxInteractions
  /\ txs' = Append(txs, Tx("A", "add", "confirmed", FALSE))
  /\ UNCHANGED <<cache, options, interactionsCache, frames, interactionState, handled,
                 calls, pending>>

ConcurrentNext ==
  \/ ConcurrentWrite
  \/ ConcurrentLoadStarts
  \/ ConcurrentLoadEnds

SpecConcurrentLoads == LoaderInit /\ [][ConcurrentNext]_vars

Elements(list) == {list[n] : n \in 1..Len(list)}

\* C37: however the loads of one contract interleave, the memoized list is
\* in ascending sort-key order without duplicates, and a load that completes
\* leaves in it every interaction that was memoized before.
C37_ConcurrentLoadsKeepMemo ==
  \A n \in 1..Len(calls) :
    /\ Ascending(calls[n].memoAfter)
    /\ Elements(calls[n].memoBefore) \subseteq Elements(calls[n].memoAfter)

\* ---- a range lookup beside delete and prune ------------------------------------
\* The two steps of getLast and getLessOrEqual with every call of the cache
\* running between them.
\* cache.delete(c), from another asynchronous call
LookupDelete ==
  /\ Len(calls) < MaxLookupPuts
  /\ \E c \in Contracts :
       /\ cache' = CacheDelete(cache, c)
       /\ calls' = Append(calls, [op |-> "delete", contract |-> c])
  /\ UNCHANGED <<txs, options, interactionsCache, frames, interactionState, handled,
                 pending>>

\* cache.prune(entriesStored), from another asynchronous call
LookupPrune ==
  /\ Len(calls) < MaxLookupPuts
  /\ \E entriesStored \in PruneArguments :
       /\ cache' = CachePrune(cache, entriesStored)
       /\ calls' = Append(calls, [op |-> "prune", entriesStored |-> entriesStored])
  /\ UNCHANGED <<txs, options, interactionsCache, frames, interactionState, handled,
                 pending>>

LookupRemoveNext ==
  \/ LookupPut
  \/ LookupDelete
  \/ LookupPrune
  \/ LookupScan
  \/ LookupRead

SpecLookupRemove == CacheInit /\ [][LookupRemoveNext]_vars

\* C38: a getLast or getLessOrEqual never rejects with a not-found error; when
\* a delete or a prune removed the scanned key before the value was read, the
\* lookup resolves to null or to an entry that is present.
C38_LookupNeverRejects ==
  (pending # None /\ pending[1].op = "lookup" /\ pending[1].pc # "scanned") =>
    /\ pending[1].pc = "resolved"
    /\ pending[1].result # None =>
         LET found == pending[1].result[1]
         IN  /\ found.sortKey \in DOMAIN cache[pending[1].contract]
             /\ cache[pending[1].contract][found.sortKey] = found.cachedValue

\* ---- the guest of a handle that timed out ----------------------------------------
\* Promise.race settles with the timer's rejection and leaves the guest's
\* promise running: a call record with guest "running" is a guest that
\* outlived its handle.  It holds the handler's SmartWeave global, and with
\* it the key-value store that the next handle opens.
Outlived(n) == calls[n].op = "handle" /\ calls[n].guest = "running"

\* The guest of an earlier handle writes to the key-value store while a later
\* interaction is handled.
LateGuestPut ==
  /\ Racing
  /\ \E n \in 1..Len(calls) :
       /\ Outlived(n)
       /\ calls' = [calls EXCEPT ![n].guest = "put"]
  /\ pending' = Some([pending[1] EXCEPT !.kv.staged = @ + 1])
  /\ UNCHANGED <<txs, cache, options, interactionsCache, frames, interactionState,
                 handled>>

\* The guest of an earlier handle settles: the race is over, nobody listens.
LateGuestSettles ==
  /\ \E n \in 1..Len(calls) :
       /\ Outlived(n)
       /\ calls' = [calls EXCEPT ![n].guest = "settled"]
  /\ UNCHANGED <<txs, cache, options, interactionsCache, frames, interactionState,
                 handled, pending>>

LateGuestNext ==
  \/ HandleStart
  \/ GuestPut
  \/ GuestSettles
  \/ TimerFires
  \/ HandleReturn
  \/ LateGuestPut
  \/ LateGuestSettles

SpecLateGuest == CacheInit /\ [][LateGuestNext]_vars

\* C39: once handle has answered 'exception' for a timeout, what the guest of
\* that handle does afterwards changes nothing of the handle that is in
\* progress: its key-value store, its result and its timer stay as they are.
C39_TimedOutGuestInert ==
  [][(\E n \in 1..Len(calls) :
        /\ Len(calls') = Len(calls)
        /\ Outlived(n)
        /\ calls'[n].guest # "running") => pending' = pending]_vars

\* ---- InnerWritesEvaluator ----------------------------------------------------------
\* A ContractCallRecord is a tree: the record's interactions, the foreign
\* contract calls of each interaction, the interactions of each call, and so
\* on.  The tree is kept as the list of its nodes in the order they were
\* recorded, which is the order Object.keys gives; parent 0 is the record.
CallTargets == Contracts \cup {"C"}

InteractionCall(parent, dryWrite) ==
  [parent |-> parent, kind |-> "interaction", contractTxId |-> "none",
   innerCallType |-> "none", dryWrite |-> dryWrite]

ForeignCall(parent, contractTxId, innerCallType) ==
  [parent |-> parent, kind |-> "call", contractTxId |-> contractTxId,
   innerCallType |-> innerCallType, dryWrite |-> FALSE]

\* Object.keys(...) of the node's interactions or foreignContractCalls
RECURSIVE KeysOf(_, _, _)
KeysOf(nodes, parent, from) ==
  IF from > Len(nodes) THEN <<>>
  ELSE (IF nodes[from].parent = parent THEN <<from>> ELSE <<>>)
         \o KeysOf(nodes, parent, from + 1)

\* A push without the two exclusions.
PushTargetAlways(rootContractTxId, foreignCall, foreignInteraction, result, onlyDryWrites) ==
  IF (onlyDryWrites /\ foreignInteraction.dryWrite) \/ ~onlyDryWrites
    THEN Append(result, foreignCall.contractTxId)
    ELSE result

\* if (((onlyDryWrites && dryWrite) || !onlyDryWrites) && !result.includes(id)
\*     && rootContractTxId !== id) result.push(id)
PushTarget(rootContractTxId, foreignCall, foreignInteraction, result, onlyDryWrites) ==
  IF /\ (onlyDryWrites /\ foreignInteraction.dryWrite) \/ ~onlyDryWrites
     /\ \A n \in 1..Len(result) : result[n] # foreignCall.contractTxId
     /\ rootContractTxId # foreignCall.contractTxId
    THEN Append(result, foreignCall.contractTxId)
    ELSE result

RECURSIVE EvalForeignCalls(_, _, _, _, _)
RECURSIVE EachForeignCall(_, _, _, _, _)
RECURSIVE EachForeignInteraction(_, _, _, _, _, _)

\* The inner forEach: the interactions of one 'write' foreign call.
EachForeignInteraction(nodes, rootContractTxId, call, keys, result, onlyDryWrites) ==
  IF keys = <<>> THEN result
  ELSE LET pushed == PushTarget(rootContractTxId, nodes[call], nodes[Head(keys)],
                                result, onlyDryWrites)
           nested == EvalForeignCalls(nodes, rootContractTxId, Head(keys), pushed, TRUE)
       IN  EachForeignInteraction(nodes, rootContractTxId, call, Tail(keys), nested,
                                  onlyDryWrites)

\* The outer forEach: the foreign calls of one interaction.
EachForeignCall(nodes, rootContractTxId, keys, result, onlyDryWrites) ==
  IF keys = <<>> THEN result
  ELSE LET after == IF nodes[Head(keys)].innerCallType = "write"
                      THEN EachForeignInteraction(nodes, rootContractTxId, Head(keys),
                                                  KeysOf(nodes, Head(keys), 1), result,
                                                  onlyDryWrites)
                      ELSE result
       IN  EachForeignCall(nodes, rootContractTxId, Tail(keys), after, onlyDryWrites)

EvalForeignCalls(nodes, rootContractTxId, interaction, result, onlyDryWrites) ==
  EachForeignCall(nodes, rootContractTxId, KeysOf(nodes, interaction, 1), result,
                  onlyDryWrites)

RECURSIVE EachInteraction(_, _, _)
EachInteraction(callStack, keys, result) ==
  IF keys = <<>> THEN result
  ELSE EachInteraction(callStack, Tail(keys),
                       EvalForeignCalls(callStack.nodes, callStack.contractTxId,
                                        Head(keys), result, TRUE))

\* InnerWritesEvaluator.eval(callStack)
InnerWritesEval(callStack) ==
  EachInteraction(callStack, KeysOf(callStack.nodes, 0, 1), <<>>)

\* new ContractCallRecord(contractTxId, ...)
RecordStart ==
  /\ pending = None
  /\ calls = <<>>
  /\ pending' = Some([op |-> "record", contractTxId |-> "A", nodes |-> <<>>])
  /\ UNCHANGED <<txs, cache, options, interactionsCache, frames, interactionState,
                 handled, calls>>

\* An interaction or a foreign call is recorded under the record, under an
\* interaction or under a foreign call.
RecordAdd ==
  /\ pending # None
  /\ pending[1].op = "record"
  /\ calls = <<>>
  /\ Len(pending[1].nodes) < MaxCallNodes
  /\ \E parent \in 0..Len(pending[1].nodes), dryWrite \in BOOLEAN,
        contractTxId \in CallTargets, innerCallType \in {"read", "view", "write"} :
       LET nodes == pending[1].nodes
           node == IF parent # 0 /\ nodes[parent].kind = "interaction"
                     THEN ForeignCall(parent, contractTxId, innerCallType)
                     ELSE InteractionCall(parent, dryWrite)
       IN  pending' = Some([pending[1] EXCEPT !.nodes = Append(nodes, node)])
  /\ UNCHANGED <<txs, cache, options, interactionsCache, frames, interactionState,
                 handled, calls>>

\* eval is applied to the record.
RecordEval ==
  /\ pending # None
  /\ pending[1].op = "record"
  /\ calls = <<>>
  /\ calls' = Append(calls, [op |-> "eval", callStack |-> pending[1],
                             result |-> InnerWritesEval(pending[1])])
  /\ UNCHANGED <<txs, cache, options, interactionsCache, frames, interactionState,
                 handled, pending>>

RecordNext ==
  \/ RecordStart
  \/ RecordAdd
  \/ RecordEval

SpecInnerWrites == CacheInit /\ [][RecordNext]_vars

\* Every foreign call on the way from the record down to the node, the node
\* included, is a 'write'.
RECURSIVE ThroughWrites(_, _)
ThroughWrites(nodes, n) ==
  IF n = 0 THEN TRUE
  ELSE /\ nodes[n].kind = "call" => nodes[n].innerCallType = "write"
       /\ ThroughWrites(nodes, nodes[n].parent)

\* The contracts that are the target of a 'write' foreign call with a
\* dry-write interaction, at any depth through 'write' foreign calls.
DryWritten(nodes) ==
  {nodes[c].contractTxId :
     c \in {n \in 1..Len(nodes) :
              /\ nodes[n].kind = "call"
              /\ ThroughWrites(nodes, n)
              /\ \E k \in 1..Len(nodes) : nodes[k].parent = n /\ nodes[k].dryWrite}}

\* C40: eval of a finite call record returns a list without duplicates that
\* does not contain the record's own contract and contains every other
\* contract that is the target of a 'write' foreign call with at least one
\* dry-write interaction, at any depth reachable through 'write' calls.
C40_InnerWritesEval ==
  \A n \in 1..Len(calls) :
    calls[n].op = "eval" =>
      LET result == calls[n].result
          callStack == calls[n].callStack
      IN  /\ \A i, j \in 1..Len(result) : result[i] = result[j] => i = j
          /\ \A i \in 1..Len(result) : result[i] # callStack.contractTxId
          /\ DryWritten(callStack.nodes) \ {callStack.contractTxId}
               \subseteq Elements(result)

\* A record with a dry write to C nested in a dry write to B was evaluated.
C40_Witness ==
  /\ calls # <<>>
  /\ calls[1].op = "eval"
  /\ Len(calls[1].callStack.nodes) = 5
  /\ calls[1].callStack.nodes[4].parent = 3
  /\ calls[1].result = <<"B", "C">>

====
